---- MODULE Spec2Model ----
(***************************************************************************)
(* ClearProxy: the SDK method ClearProxy.check (src/lib/sdk.js) and the    *)
(* CLI `check` command (src/bin/clearproxy.js), with the ingestion helpers *)
(* normalizeProxy / detectFormat / parseProxies they call, the remote      *)
(* check API and the WebSocket progress channel.                           *)
(*                                                                         *)
(* Strings are sequences of chunks (each chunk a TLA+ string): "http://a"  *)
(* is <<"http://", "a">>, "  a" is <<" ", "a">>.  A chunk that is a        *)
(* recognised scheme prefix is what the regex of normalizeProxy matches.   *)
(***************************************************************************)
EXTENDS Integers, Sequences, FiniteSets, TLC

----------------------------------------------------------------------------
(* Bounds of the model *)

MaxProxies == 1      \* longest array given as input
MaxRules == 1        \* longest customUrls list
MaxEvents == 2       \* progress messages the service emits per job

----------------------------------------------------------------------------
(* Strings *)

SP == " "
SchemeChunks == {"http://", "https://", "socks4://", "socks5://", "HTTP://"}

\* a string that starts with one of the scheme prefixes normalizeProxy removes
HasSchemePrefix(s) == Len(s) > 0 /\ Head(s) \in SchemeChunks

\* a replace that goes on while a scheme prefix is left
RECURSIVE StripSchemeAll(_)
StripSchemeAll(s) == IF HasSchemePrefix(s) THEN StripSchemeAll(Tail(s)) ELSE s

\* String.prototype.replace(/^(https?|socks[45]):\/\//i, ""): first match only
StripScheme(s) == IF HasSchemePrefix(s) THEN Tail(s) ELSE s

RECURSIVE TrimLeft(_)
TrimLeft(s) == IF Len(s) > 0 /\ Head(s) = SP THEN TrimLeft(Tail(s)) ELSE s

RECURSIVE TrimRight(_)
TrimRight(s) ==
    IF Len(s) > 0 /\ s[Len(s)] = SP THEN TrimRight(SubSeq(s, 1, Len(s) - 1)) ELSE s

\* String.prototype.trim
Trim(s) == TrimRight(TrimLeft(s))

\* Number -> its decimal text, for the ports the model uses
PortText(n) == IF n = 80 THEN "80" ELSE IF n = 1080 THEN "1080" ELSE "0"

----------------------------------------------------------------------------
(* Raw proxy entries: a string, a structured record, or null.              *)
(* In a record "" is an absent (falsy) string field and port 0 is falsy.   *)

StrEntry(s) == [t |-> "str", s |-> s, host |-> "", port |-> 0, username |-> "", password |-> ""]
RecEntry(h, p, u, w) == [t |-> "rec", s |-> <<>>, host |-> h, port |-> p, username |-> u, password |-> w]
NullEntry == [t |-> "null", s |-> <<>>, host |-> "", port |-> 0, username |-> "", password |-> ""]

\* the result of normalizeProxy: <<>> is null, <<tok>> is the string tok
Null == <<>>
Str(tok) == <<tok>>

\* JavaScript truthiness of a normalizeProxy result (null and "" are falsy)
Truthy(r) == r # Null /\ r[1] # <<>>

\* a normalizeProxy that writes the credentials when either one is there
normalizeProxyAnyCredential(p) ==
    IF p.t = "null" \/ (p.t = "str" /\ p.s = <<>>) THEN Null
    ELSE IF p.t = "str" THEN Str(Trim(StripScheme(p.s)))
    ELSE IF p.host # "" /\ p.port # 0
         THEN LET base == <<p.host, ":", PortText(p.port)>>
              IN  IF p.username # "" \/ p.password # ""
                  THEN Str(<<p.username, ":", p.password, "@">> \o base)
                  ELSE Str(base)
         ELSE Null

\* lines 466-482
normalizeProxy(p) ==
    IF p.t = "null" \/ (p.t = "str" /\ p.s = <<>>) THEN Null
    ELSE IF p.t = "str" THEN Str(Trim(StripScheme(p.s)))
    ELSE IF p.host # "" /\ p.port # 0
         THEN LET base == <<p.host, ":", PortText(p.port)>>
              IN  IF p.username # "" /\ p.password # ""
                  THEN Str(<<p.username, ":", p.password, "@">> \o base)
                  ELSE Str(base)
         ELSE Null

\* arr.map(normalizeProxy)
RECURSIVE MapNormalize(_)
MapNormalize(arr) ==
    IF arr = <<>> THEN <<>> ELSE <<normalizeProxy(Head(arr))>> \o MapNormalize(Tail(arr))

\* a filter that keeps every result, null as the empty token
RECURSIVE FilterBooleanKeepsAll(_)
FilterBooleanKeepsAll(rs) ==
    IF rs = <<>> THEN <<>>
    ELSE <<IF Head(rs) = Null THEN <<>> ELSE Head(rs)[1]>> \o FilterBooleanKeepsAll(Tail(rs))

\* arr.filter(Boolean) over normalizeProxy results, unwrapped to tokens
RECURSIVE FilterBoolean(_)
FilterBoolean(rs) ==
    IF rs = <<>> THEN <<>>
    ELSE IF Truthy(Head(rs)) THEN <<Head(rs)[1]>> \o FilterBoolean(Tail(rs))
         ELSE FilterBoolean(Tail(rs))

\* lines.map(normalizeProxy) with no filter: every result is kept as it is
\* (a line is a non-empty string, so the result is never null; it can be "")
RECURSIVE Unwrap(_)
Unwrap(rs) ==
    IF rs = <<>> THEN <<>>
    ELSE <<IF Head(rs) = Null THEN <<>> ELSE Head(rs)[1]>> \o Unwrap(Tail(rs))

RECURSIVE StrEntries(_)
StrEntries(lines) ==
    IF lines = <<>> THEN <<>> ELSE <<StrEntry(Head(lines))>> \o StrEntries(Tail(lines))

----------------------------------------------------------------------------
(* Files.  A file is described by what the library calls of parseProxies   *)
(* observe on it: existence, whether the trimmed content is empty, whether *)
(* it starts with "[", whether it holds a comma, the value JSON.parse      *)
(* yields (<<>> when it throws), the records csv-parse yields (<<>> when   *)
(* it throws) and the lines content.split(/\r?\n/) yields.                 *)

File(ex, em, br, co, js, cs, ls) ==
    [exists |-> ex, trimmedEmpty |-> em, startsBracket |-> br, hasComma |-> co,
     json |-> js, csv |-> cs, lines |-> ls]

JsonValue(shape, entries) == [shape |-> shape, entries |-> entries]

NoFile == File(FALSE, TRUE, FALSE, FALSE, <<>>, <<>>, <<>>)
EmptyFile == File(TRUE, TRUE, FALSE, FALSE, <<>>, <<>>, <<>>)
TxtFile(ls) == File(TRUE, FALSE, FALSE, FALSE, <<>>, <<<<>>>>, ls)
JsonArrayFile(es) ==
    File(TRUE, FALSE, TRUE, Len(es) > 1, <<JsonValue("array", es)>>, <<>>, <<<<"[...]">>>>)
JsonProxiesFile(es) ==
    File(TRUE, FALSE, FALSE, Len(es) > 1, <<JsonValue("proxies", es)>>, <<>>, <<<<"{proxies}">>>>)
JsonOtherFile == File(TRUE, FALSE, FALSE, FALSE, <<JsonValue("other", <<>>)>>, <<>>, <<<<"{}">>>>)
JsonNullFile == File(TRUE, FALSE, FALSE, FALSE, <<JsonValue("null", <<>>)>>, <<>>, <<<<"null">>>>)
BadJsonFile == File(TRUE, FALSE, TRUE, FALSE, <<>>, <<>>, <<<<"[oops">>>>)
CsvFile(rs) == File(TRUE, FALSE, FALSE, TRUE, <<>>, <<rs>>, <<<<"host,port">>>>)
BadCsvFile == File(TRUE, FALSE, FALSE, TRUE, <<>>, <<>>, <<<<"a,\"b">>>>)

\* a detectFormat that looks at the content before the extension
detectFormatSniffsFirst(filePath, content) ==
    IF content.startsBracket THEN "json"
    ELSE IF content.hasComma THEN "csv"
    ELSE IF Len(filePath) > 0 /\ filePath[Len(filePath)] = ".json" THEN "json"
    ELSE IF Len(filePath) > 0 /\ filePath[Len(filePath)] = ".csv" THEN "csv"
    ELSE "txt"

\* String.prototype.endsWith on the path
EndsWith(path, ext) == Len(path) > 0 /\ path[Len(path)] = ext

detectFormat(filePath, content) ==
    IF EndsWith(filePath, ".json") THEN "json"
    ELSE IF EndsWith(filePath, ".csv") THEN "csv"
    ELSE IF EndsWith(filePath, ".txt") THEN "txt"
    ELSE IF content.startsBracket THEN "json"
    ELSE IF content.hasComma THEN "csv"
    ELSE "txt"

\* lines.filter(Boolean): drops the empty strings
RECURSIVE NonEmptyLines(_)
NonEmptyLines(ls) ==
    IF ls = <<>> THEN <<>>
    ELSE IF Head(ls) = <<>> THEN NonEmptyLines(Tail(ls))
         ELSE <<Head(ls)>> \o NonEmptyLines(Tail(ls))

----------------------------------------------------------------------------
(* Inputs of parseProxies / check *)

ArrayInput(arr) == [kind |-> "array", arr |-> arr, str |-> <<>>]
StringInput(s) == [kind |-> "string", arr |-> <<>>, str |-> s]
AbsentInput == [kind |-> "absent", arr |-> <<>>, str |-> <<>>]
OtherInput == [kind |-> "other", arr |-> <<>>, str |-> <<>>]

\* standard input: unavailable (readFileSync(0) throws) or its trimmed lines
Stdin(avail, ls) == [available |-> avail, lines |-> ls]

\* result of parseProxies: err = "" and the list, or the message thrown
Parsed(list) == [err |-> "", list |-> list]
Thrown(msg) == [err |-> msg, list |-> <<>>]

\* the file branch of parseProxies (lines 505-533)
parseFile(path, file) ==
    IF ~file.exists THEN Thrown("File not found")
    ELSE IF file.trimmedEmpty THEN Thrown("Empty file")
    ELSE LET format == detectFormat(path, file)
         IN  IF format = "json"
             THEN IF file.json = <<>> THEN Thrown("Failed to parse JSON")
                  ELSE IF file.json[1].shape \in {"array", "proxies"}
                       THEN Parsed(FilterBoolean(MapNormalize(file.json[1].entries)))
                       ELSE Thrown("Failed to parse JSON")
             ELSE IF format = "csv"
             THEN IF file.csv = <<>> THEN Thrown("Failed to parse CSV")
                  ELSE Parsed(FilterBoolean(MapNormalize(file.csv[1])))
             ELSE Parsed(Unwrap(MapNormalize(StrEntries(NonEmptyLines(file.lines)))))

\* a parseProxies that itself rejects an array with nothing left in it
parseProxiesRejectsEmpty(input, file, stdin) ==
    IF input.kind = "array"
    THEN IF FilterBoolean(MapNormalize(input.arr)) = <<>>
         THEN Thrown("No proxies found in input")
         ELSE Parsed(FilterBoolean(MapNormalize(input.arr)))
    ELSE IF input.kind = "absent" \/ input.str = <<>>
    THEN Thrown("No input found (file or stdin).")
    ELSE parseFile(input.str, file)

\* parseProxies(input): `file` is the file at the path the input names (or at
\* the working directory when the input is absent or ""), `stdin` the stream
parseProxies(input, file, stdin) ==
    IF input.kind = "array" THEN Parsed(FilterBoolean(MapNormalize(input.arr)))
    ELSE IF input.kind = "absent" \/ input.str = <<>>
    THEN IF ~stdin.available THEN Thrown("No input found (file or stdin).")
         ELSE IF stdin.lines # <<>>
              THEN Parsed(Unwrap(MapNormalize(StrEntries(NonEmptyLines(stdin.lines)))))
              ELSE IF input.kind = "absent" THEN Thrown("TypeError")
                   ELSE Thrown("EISDIR")
    ELSE parseFile(input.str, file)

----------------------------------------------------------------------------
(* Options, errors, HTTP responses *)

allowedTypes == {"http", "socks4", "socks5"}

\* customUrls: `len` is its .length, `rules` its elements when it is an array.
\* A rule is the object "ok" ({url: "https://x"}), "nourl" ({}), "emptyurl"
\* ({url: ""}) or "numurl" ({url: 5}).  For the CLI, `given` says that --custom
\* was passed and `parses` that JSON.parse accepted its text.
RuleKinds == {"ok", "nourl", "emptyurl", "numurl"}
CustomUrls(given, parses, isArray, len, rules) ==
    [given |-> given, parses |-> parses, isArray |-> isArray, len |-> len, rules |-> rules]
NoCustomUrls == CustomUrls(FALSE, TRUE, TRUE, 0, <<>>)

\* an Error: the message template of the throw statement and what it embeds
Err(msg, status, body, idx) == [msg |-> msg, status |-> status, body |-> body, idx |-> idx]
NoErr == Err("", 0, "", -1)
Msg(m) == Err(m, 0, "", -1)

\* a fetch() result: rejected, or a response with ok/status, the body text and
\* the value res.json() yields (<<>> when the body is not JSON)
Response(ok, status, text, json) ==
    [rejected |-> FALSE, ok |-> ok, status |-> status, text |-> text, json |-> json]
Rejected == [rejected |-> TRUE, ok |-> FALSE, status |-> 0, text |-> "", json |-> <<>>]

\* custom_url_validation: <<>> is null/absent
NoCuv == <<>>
SomeCuv(tag) == <<tag>>

\* body of the submission response
SubmitData(isNull, url, cuv) == [isNull |-> isNull, result_url |-> url, custom_url_validation |-> cuv]

\* a verdict of the result payload: `proxy` is <<>> when the sub-record is
\* missing, and "" is a field that is undefined
ProxyRec(host, port, hasAuth, username, password) ==
    [host |-> host, port |-> port, hasAuth |-> hasAuth, username |-> username,
     password |-> password]
Verdict(proxy, status, country, isp, responseTime) ==
    [proxy |-> proxy, status |-> status, country |-> country, isp |-> isp,
     responseTime |-> responseTime]

\* the result payload; summary/metadata "absent" and proxies <<>> mean the
\* field is missing, proxies <<list>> that it is present
Payload(isNull, summary, metadata, prox, cuv) ==
    [isNull |-> isNull, summary |-> summary, metadata |-> metadata, proxies |-> prox,
     custom_url_validation |-> cuv]

SubmitResponses ==
    { Rejected,
      Response(FALSE, 401, "unauthorized", <<>>),
      Response(FALSE, 500, "{\"error\":1}", <<SubmitData(FALSE, "", NoCuv)>>),
      Response(TRUE, 200, "not json", <<>>),
      Response(TRUE, 200, "null", <<SubmitData(TRUE, "", NoCuv)>>),
      Response(TRUE, 200, "{}", <<SubmitData(FALSE, "", NoCuv)>>),
      Response(TRUE, 200, "{result_url}", <<SubmitData(FALSE, "r1", NoCuv)>>),
      Response(TRUE, 200, "{result_url,cuv}", <<SubmitData(FALSE, "r1", SomeCuv("submit"))>>) }

V1 == Verdict(<<ProxyRec("1.1.1.1", 80, FALSE, "", "")>>, "working", "US", "isp1", "120")
V2 == Verdict(<<ProxyRec("h", 1080, TRUE, "u", "p")>>, "failed", "", "", "")
V3 == Verdict(<<>>, "timeout", "", "", "")
V4 == Verdict(<<ProxyRec("h", 80, FALSE, "u", "p")>>, "working", "", "", "")

ResultResponses ==
    { Rejected,
      Response(FALSE, 404, "gone", <<>>),
      Response(TRUE, 200, "not json", <<>>),
      Response(TRUE, 200, "null", <<Payload(TRUE, "absent", "absent", <<>>, NoCuv)>>),
      Response(TRUE, 200, "{}", <<Payload(FALSE, "absent", "absent", <<>>, NoCuv)>>),
      Response(TRUE, 200, "{proxies}",
               <<Payload(FALSE, "S", "M", <<<<V1, V2>>>>, NoCuv)>>),
      Response(TRUE, 200, "{proxies3}",
               <<Payload(FALSE, "absent", "M", <<<<V3, V1>>>>, NoCuv)>>),
      Response(TRUE, 200, "{proxies,cuv}",
               <<Payload(FALSE, "S", "absent", <<<<V2, V1>>>>, SomeCuv("result"))>>) }

\* x || {} for summary and metadata
OrEmptyMap(x) == IF x = "absent" THEN "{}" ELSE x

\* a filter that lets every verdict through
FilterStatusKeepsAll(vs, st) == vs

\* arr.filter(p => p.status === st)
RECURSIVE FilterStatus(_, _)
FilterStatus(vs, st) ==
    IF vs = <<>> THEN <<>>
    ELSE IF Head(vs).status = st THEN <<Head(vs)>> \o FilterStatus(Tail(vs), st)
         ELSE FilterStatus(Tail(vs), st)

\* a result that looks at the submission response first
CheckResultSubmitFirst(resultData, data) ==
    [summary |-> OrEmptyMap(resultData.summary),
     metadata |-> OrEmptyMap(resultData.metadata),
     proxies |-> IF resultData.proxies = <<>> THEN <<>> ELSE resultData.proxies[1],
     working |-> IF resultData.proxies = <<>> THEN <<>>
                 ELSE FilterStatus(resultData.proxies[1], "working"),
     failed |-> IF resultData.proxies = <<>> THEN <<>>
                ELSE FilterStatus(resultData.proxies[1], "failed"),
     custom_url_validation |->
         IF data.custom_url_validation # NoCuv THEN data.custom_url_validation
         ELSE resultData.custom_url_validation]

\* the object check returns (lines 166-178)
CheckResult(resultData, data) ==
    [summary |-> OrEmptyMap(resultData.summary),
     metadata |-> OrEmptyMap(resultData.metadata),
     proxies |-> IF resultData.proxies = <<>> THEN <<>> ELSE resultData.proxies[1],
     working |-> IF resultData.proxies = <<>> THEN <<>>
                 ELSE FilterStatus(resultData.proxies[1], "working"),
     failed |-> IF resultData.proxies = <<>> THEN <<>>
                ELSE FilterStatus(resultData.proxies[1], "failed"),
     custom_url_validation |->
         IF resultData.custom_url_validation # NoCuv THEN resultData.custom_url_validation
         ELSE IF data.custom_url_validation # NoCuv THEN data.custom_url_validation
         ELSE NoCuv]

\* how a call ends: check returns `val` or throws `err`; the CLI process exits
\* with `code`; "crash" is an exception no handler caught
Outcome(kind, code, err, val) == [kind |-> kind, code |-> code, err |-> err, val |-> val]
Pending == Outcome("none", 0, NoErr, <<>>)
Returns(v) == Outcome("return", 0, NoErr, <<v>>)
Throws(e) == Outcome("throw", 0, e, <<>>)
Exits(code, e) == Outcome("exit", code, e, <<>>)
Crash == Outcome("crash", 1, Msg("uncaught"), <<>>)

----------------------------------------------------------------------------
(* What a caller can pass *)

RawEntries ==
    { StrEntry(<<"http://", "a">>), StrEntry(<<SP, "socks5://", "a">>),
      RecEntry("h", 80, "u", "p"), NullEntry }

RECURSIVE SeqsUpTo(_, _)
SeqsUpTo(S, n) ==
    IF n = 0 THEN {<<>>}
    ELSE LET shorter == SeqsUpTo(S, n - 1)
         IN  shorter \cup {Append(q, x) : q \in {r \in shorter : Len(r) = n - 1}, x \in S}

\* a string input together with the file found at that path
Named(str, file) == [input |-> StringInput(str), file |-> file]
SdkInputs ==
    { Named(<<"a">>, NoFile),
      Named(<<"socks5://", "a">>, NoFile),
      Named(<<"f", ".txt">>, EmptyFile),
      Named(<<"f", ".txt">>, TxtFile(<<<<"HTTP://", "https://", "a">>, <<>>, <<"b">>>>)),
      Named(<<"f", ".json">>, BadJsonFile),
      Named(<<"f", ".json">>, JsonOtherFile),
      Named(<<"f", ".json">>, JsonArrayFile(<<StrEntry(<<"socks4://", "a">>), NullEntry>>)),
      Named(<<"f">>, JsonProxiesFile(<<RecEntry("h", 1080, "", "")>>)),
      Named(<<"f", ".csv">>, BadCsvFile),
      Named(<<"f", ".csv">>, CsvFile(<<RecEntry("h", 80, "", ""), RecEntry("", 80, "", "")>>)) }
        \cup {[input |-> ArrayInput(a), file |-> NoFile] :
                  a \in SeqsUpTo(RawEntries, MaxProxies)}
        \cup {[input |-> OtherInput, file |-> NoFile]}

Types == {"http", "ftp"}

Options(type, customUrls, jobId, onProgress, hasKey, format, simple) ==
    [type |-> type, customUrls |-> customUrls, jobId |-> jobId, onProgress |-> onProgress,
     hasKey |-> hasKey, format |-> format, simple |-> simple]

SdkOptions ==
    LET customUrls ==
            {CustomUrls(TRUE, TRUE, TRUE, Len(r), r) : r \in SeqsUpTo(RuleKinds, MaxRules)}
                \cup {CustomUrls(TRUE, TRUE, FALSE, 0, <<>>),
                      CustomUrls(TRUE, TRUE, FALSE, 1, <<>>)}
    IN  {Options(t, c, j, p, TRUE, "json", FALSE) :
            t \in Types, c \in customUrls, j \in {"", "job1"}, p \in BOOLEAN}

----------------------------------------------------------------------------
(* State *)

VARIABLES
    caller,          \* "none", "sdk" (ClearProxy.check) or "cli" (check command)
    pc,              \* where the call stands
    input,           \* the input argument
    file,            \* the file at the path a string input names
    argv,            \* CLI: process.argv.slice(3)
    opts,            \* the options of the call
    proxies,         \* the parsed proxy tokens
    effectiveJobId,  \* job identifier in use ("" when there is none)
    req,             \* bodies of the POST /check requests issued so far
    res,             \* <<>> or <<the submission response>>
    fetches,         \* result locations fetched so far
    resultRes,       \* <<>> or <<the result response>>
    ws,              \* the progress subscription
    emitted,         \* number of progress messages the service has emitted
    inbox,           \* messages received on the socket, not yet handled
    forwarded,       \* ids of the events passed to the progress callback
    swallowed,       \* exceptions the message handler has caught
    wsErrors,        \* whether the socket has raised its "error" event
    outFile,         \* CLI: <<>> or <<what was written to the --out file>>
    outcome,         \* how the call ended
    libCall,         \* a direct call of an exported helper: its name and arguments
    libResult        \* what that call returned or threw

vars == <<caller, pc, input, file, argv, opts, proxies, effectiveJobId, req, res, fetches,
          resultRes, ws, emitted, inbox, forwarded, swallowed, wsErrors, outFile, outcome,
          libCall, libResult>>

callVars == <<caller, input, file, argv, opts>>
chanVars == <<emitted, inbox, forwarded, swallowed, wsErrors>>
httpVars == <<req, res, fetches, resultRes>>
libVars == <<libCall, libResult>>

\* the WebSocket: not created, open, or closed; `closes` counts ws.close() calls
Socket(state, jobId, closes) == [state |-> state, jobId |-> jobId, closes |-> closes]
NoSocket == Socket("none", "", 0)

Init ==
    /\ caller = "none"
    /\ pc = "idle"
    /\ input = OtherInput
    /\ file = NoFile
    /\ argv = <<>>
    /\ opts = Options("http", NoCustomUrls, "", FALSE, TRUE, "json", FALSE)
    /\ proxies = <<>>
    /\ effectiveJobId = ""
    /\ req = <<>>
    /\ res = <<>>
    /\ fetches = <<>>
    /\ resultRes = <<>>
    /\ ws = NoSocket
    /\ emitted = 0
    /\ inbox = <<>>
    /\ forwarded = <<>>
    /\ swallowed = 0
    /\ wsErrors = FALSE
    /\ outFile = <<>>
    /\ outcome = Pending
    /\ libCall = [fn |-> "none"]
    /\ libResult = <<>>

----------------------------------------------------------------------------
(* ClearProxy.check (src/lib/sdk.js 60-184) *)

\* client.check(input, options) is called
SdkCall ==
    /\ pc = "idle"
    /\ \E i \in SdkInputs, o \in SdkOptions :
          /\ input' = i.input
          /\ file' = i.file
          /\ opts' = o
    /\ caller' = "sdk"
    /\ argv' = <<>>
    /\ pc' = "validate"
    /\ UNCHANGED <<outFile, proxies, effectiveJobId, ws, outcome>>
    /\ UNCHANGED httpVars
    /\ UNCHANGED chanVars
    /\ UNCHANGED libVars

\* Math.random()/Date.now() identifier of line 72
GeneratedJobIds == {"sdk_r1"}

\* customUrls.forEach of lines 85-92: the first rule that throws, from index i
RECURSIVE SdkRuleError(_, _)
SdkRuleError(rules, i) ==
    IF i > Len(rules) THEN NoErr
    ELSE IF rules[i] \in {"nourl", "emptyurl"}
         THEN Err("Custom URL is missing 'url' field", 0, "", i - 1)
    ELSE IF rules[i] = "numurl"
         THEN Err("Custom URL: 'url' must be a string", 0, "", i - 1)
    ELSE SdkRuleError(rules, i + 1)

\* the validation of lines 75-93: NoErr when the options pass
SdkValidationError(o) ==
    IF o.type \notin allowedTypes THEN Msg("Invalid type")
    ELSE IF o.customUrls.len > 0
         THEN IF ~o.customUrls.isArray THEN Msg("customUrls must be an array")
              ELSE SdkRuleError(o.customUrls.rules, 1)
         ELSE NoErr

\* lines 70-93
SdkValidate ==
    /\ caller = "sdk" /\ pc = "validate"
    /\ \E g \in GeneratedJobIds :
          effectiveJobId' = IF opts.onProgress /\ opts.jobId = "" THEN g ELSE opts.jobId
    /\ LET e == SdkValidationError(opts)
       IN  IF e # NoErr
           THEN pc' = "done" /\ outcome' = Throws(e)
           ELSE pc' = "ingest" /\ outcome' = outcome
    /\ UNCHANGED <<outFile, proxies, ws>>
    /\ UNCHANGED callVars
    /\ UNCHANGED httpVars
    /\ UNCHANGED chanVars
    /\ UNCHANGED libVars

\* the try/catch of lines 97-101: what a string input is turned into
SdkParseString(in, f) ==
    LET r == parseProxies(in, f, Stdin(FALSE, <<>>))
    IN  IF r.err = "" THEN r ELSE Parsed(<<in.str>>)

\* lines 95-106: the parsed list, or the error thrown
SdkIngestResult(in, f) ==
    IF in.kind = "string" THEN SdkParseString(in, f)
    ELSE IF in.kind = "array" THEN parseProxies(in, f, Stdin(FALSE, <<>>))
    ELSE Thrown("Input must be a file path, proxy string, or array of proxies")

\* lines 95-110
SdkIngest ==
    /\ caller = "sdk" /\ pc = "ingest"
    /\ LET r == SdkIngestResult(input, file)
       IN  IF r.err # ""
           THEN pc' = "done" /\ outcome' = Throws(Msg(r.err)) /\ proxies' = proxies
           ELSE IF r.list = <<>>
           THEN pc' = "done" /\ outcome' = Throws(Msg("No proxies found in input"))
                /\ proxies' = r.list
           ELSE pc' = "submit" /\ outcome' = outcome /\ proxies' = r.list
    /\ UNCHANGED <<outFile, effectiveJobId, ws>>
    /\ UNCHANGED callVars
    /\ UNCHANGED httpVars
    /\ UNCHANGED chanVars
    /\ UNCHANGED libVars


\* the JSON body of POST /check (lines 118-125; region and timeout are
\* forwarded untouched and left out); customUrls <<>> and jobId "" are omitted
Body(prox, type, customUrls, jobId) ==
    [proxies |-> prox, type |-> type, customUrls |-> customUrls, jobId |-> jobId]

\* customUrls.length > 0 ? customUrls : undefined
BodyCustomUrls(c) == IF c.len > 0 THEN c.rules ELSE <<>>

\* variant: the body carries the caller's jobId option instead
SdkBodyJobIdFromOption(effective, o) == o.jobId

\* jobId: effectiveJobId || undefined
SdkBodyJobId(effective, o) == effective

\* lines 112-126: the submission request is issued
SdkSubmit ==
    /\ caller = "sdk" /\ pc = "submit"
    /\ req' = Append(req, Body(proxies, opts.type, BodyCustomUrls(opts.customUrls),
                               SdkBodyJobId(effectiveJobId, opts)))
    /\ pc' = "awaitSubmit"
    /\ UNCHANGED <<outFile, proxies, effectiveJobId, ws, outcome, res, fetches, resultRes>>
    /\ UNCHANGED callVars
    /\ UNCHANGED chanVars
    /\ UNCHANGED libVars

\* the remote service answers the submission, or the request fails
RemoteSubmitRespond ==
    /\ pc = "awaitSubmit" /\ res = <<>>
    /\ \E r \in SubmitResponses : res' = <<r>>
    /\ UNCHANGED <<outFile, pc, proxies, effectiveJobId, ws, outcome, req, fetches, resultRes>>
    /\ UNCHANGED callVars
    /\ UNCHANGED chanVars
    /\ UNCHANGED libVars

\* lines 129-146: the socket after `new WebSocket(wsURL)` when it is opened
SdkOpensSocket(o, effective) == o.onProgress /\ effective # ""
SdkOpen(o, effective) ==
    IF SdkOpensSocket(o, effective) THEN Socket("open", effective, 0) ELSE NoSocket

\* variant: no finally block, the socket is left as it is
SdkFinallyLeaks(w) == w

\* the finally block of lines 179-183
SdkFinally(w) == IF w.state # "none" THEN Socket("closed", w.jobId, w.closes + 1) ELSE w

\* variant: a non-success status sends the request again
SdkAfterSubmitPcRetry(r) ==
    IF r.rejected THEN "done" ELSE IF ~r.ok THEN "submit" ELSE "readJson"

\* where check goes when the submission fetch settles: a rejection leaves the
\* function, otherwise the socket is opened and res.ok decides (lines 149-154);
\* going back to "submit" would issue the request again
SdkAfterSubmitPc(r) ==
    IF r.rejected THEN "done" ELSE IF ~r.ok THEN "readText" ELSE "readJson"

\* lines 126-154, resumed when the submission fetch has settled (a request
\* issued again would wait for a new response)
SdkAfterSubmit ==
    /\ caller = "sdk" /\ pc = "awaitSubmit" /\ res # <<>>
    /\ pc' = SdkAfterSubmitPc(res[1])
    /\ IF res[1].rejected
       THEN outcome' = Throws(Msg("FetchError")) /\ ws' = ws
       ELSE outcome' = outcome /\ ws' = SdkOpen(opts, effectiveJobId)
    /\ res' = IF pc' = "submit" THEN <<>> ELSE res
    /\ UNCHANGED <<outFile, proxies, effectiveJobId, req, fetches, resultRes>>
    /\ UNCHANGED callVars
    /\ UNCHANGED chanVars
    /\ UNCHANGED libVars

\* the non-success error worded like the missing-location error
SdkApiErrorAsProtocol(r) ==
    Err("Unexpected API response: missing 'result_url'", r.status, r.text, -1)

\* the Error of line 151
SdkApiError(r) == Err("API Error", r.status, r.text, -1)

\* lines 150-151 and the finally block
SdkReadText ==
    /\ caller = "sdk" /\ pc = "readText"
    /\ outcome' = Throws(SdkApiError(res[1]))
    /\ ws' = SdkFinally(ws)
    /\ pc' = "done"
    /\ UNCHANGED <<outFile, proxies, effectiveJobId>>
    /\ UNCHANGED callVars
    /\ UNCHANGED httpVars
    /\ UNCHANGED chanVars
    /\ UNCHANGED libVars

\* variant: the result_url check of lines 155-157 is missing
SdkSubmitErrorNoUrlCheck(r) ==
    IF r.json = <<>> THEN Msg("SyntaxError")
    ELSE IF r.json[1].isNull THEN Msg("TypeError")
    ELSE NoErr

\* lines 154-157: the error decoding the submission response raises, if any
SdkSubmitError(r) ==
    IF r.json = <<>> THEN Msg("SyntaxError")
    ELSE IF r.json[1].isNull THEN Msg("TypeError")
    ELSE IF r.json[1].result_url = "" THEN Msg("Unexpected API response: missing 'result_url'")
    ELSE NoErr

\* lines 154-159: decode the submission response, then fetch the result
SdkReadJson ==
    /\ caller = "sdk" /\ pc = "readJson"
    /\ LET e == SdkSubmitError(res[1])
       IN  IF e # NoErr
           THEN /\ outcome' = Throws(e)
                /\ ws' = SdkFinally(ws)
                /\ pc' = "done"
                /\ fetches' = fetches
           ELSE /\ fetches' = Append(fetches, res[1].json[1].result_url)
                /\ pc' = "awaitResult"
                /\ UNCHANGED <<outcome, ws>>
    /\ UNCHANGED <<outFile, proxies, effectiveJobId, req, res, resultRes>>
    /\ UNCHANGED callVars
    /\ UNCHANGED chanVars
    /\ UNCHANGED libVars

\* the remote service answers the result fetch, or the request fails
RemoteResultRespond ==
    /\ pc = "awaitResult" /\ resultRes = <<>>
    /\ \E r \in ResultResponses : resultRes' = <<r>>
    /\ UNCHANGED <<outFile, pc, proxies, effectiveJobId, ws, outcome, req, res, fetches>>
    /\ UNCHANGED callVars
    /\ UNCHANGED chanVars
    /\ UNCHANGED libVars

\* the Error of line 161
SdkResultError(r) == Err("Failed to fetch result", r.status, "", -1)

\* where check goes when the result fetch settles (lines 159-164)
SdkAfterResultPc(r) == IF r.rejected \/ ~r.ok THEN "done" ELSE "readResult"

\* lines 159-164, resumed when the result fetch has settled
SdkAfterResult ==
    /\ caller = "sdk" /\ pc = "awaitResult" /\ resultRes # <<>>
    /\ pc' = SdkAfterResultPc(resultRes[1])
    /\ IF resultRes[1].rejected
       THEN outcome' = Throws(Msg("FetchError")) /\ ws' = SdkFinally(ws)
       ELSE IF ~resultRes[1].ok
       THEN outcome' = Throws(SdkResultError(resultRes[1])) /\ ws' = SdkFinally(ws)
       ELSE UNCHANGED <<outcome, ws>>
    /\ UNCHANGED <<outFile, proxies, effectiveJobId>>
    /\ UNCHANGED callVars
    /\ UNCHANGED httpVars
    /\ UNCHANGED chanVars
    /\ UNCHANGED libVars

\* lines 164-183: decode the result payload, build the return value, finally
SdkReadResult ==
    /\ caller = "sdk" /\ pc = "readResult"
    /\ LET r == resultRes[1]
       IN  IF r.json = <<>> THEN outcome' = Throws(Msg("SyntaxError"))
           ELSE IF r.json[1].isNull THEN outcome' = Throws(Msg("TypeError"))
           ELSE outcome' = Returns(CheckResult(r.json[1], res[1].json[1]))
    /\ ws' = SdkFinally(ws)
    /\ pc' = "done"
    /\ UNCHANGED <<outFile, proxies, effectiveJobId>>
    /\ UNCHANGED callVars
    /\ UNCHANGED httpVars
    /\ UNCHANGED chanVars
    /\ UNCHANGED libVars

----------------------------------------------------------------------------
(* The progress channel *)

\* the service emits a progress message for the submitted job; it reaches the
\* client when a socket subscribed to that job is open
ServiceEmit ==
    /\ req # <<>> /\ req[1].jobId # ""
    /\ emitted < MaxEvents
    /\ emitted' = emitted + 1
    /\ \E d \in BOOLEAN :
          inbox' = IF ws.state = "open" /\ ws.jobId = req[1].jobId
                   THEN Append(inbox, [id |-> emitted + 1, decodable |-> d])
                   ELSE inbox
    /\ UNCHANGED <<outFile, pc, proxies, effectiveJobId, ws, outcome, forwarded, swallowed, wsErrors>>
    /\ UNCHANGED callVars
    /\ UNCHANGED httpVars
    /\ UNCHANGED libVars

\* variant: the handler has no try/catch
HandlerRethrows == FALSE

\* the "message" handler (sdk.js 134-141, clearproxy.js 534-541) has a try/catch
\* around JSON.parse and the callback
HandlerCatches == TRUE

\* the socket has an "error" listener (sdk.js 143-145, clearproxy.js 543)
HasErrorListener == TRUE

\* a handler that stops calling the callback once it has caught an exception
HandlerForwardsUntilThrow(m, caught) == m.decodable /\ caught = 0

\* lines 136-137: the callback is called with every message JSON.parse
\* accepts, whatever the handler has caught before
HandlerForwards(m, caught) == m.decodable

\* the "message" handler runs on the next received message; cbThrows is whether
\* the progress callback throws on this event.  The listener is never removed
\* and does not look at the socket's state: close() starts the closing
\* handshake, and a message already received is still handed to the listener
\* for as long as the process lives.
WsMessage ==
    /\ inbox # <<>> /\ ws.state \in {"open", "closed"}
    /\ outcome.kind \notin {"exit", "crash"}
    /\ \E cbThrows \in BOOLEAN :
          LET m == Head(inbox)
              threw == ~m.decodable \/ cbThrows
          IN  /\ forwarded' = IF HandlerForwards(m, swallowed) THEN Append(forwarded, m.id)
                               ELSE forwarded
              /\ IF threw /\ ~HandlerCatches
                 THEN outcome' = Crash /\ pc' = "done" /\ swallowed' = swallowed
                 ELSE /\ swallowed' = IF threw THEN swallowed + 1 ELSE swallowed
                      /\ UNCHANGED <<outcome, pc>>
    /\ inbox' = Tail(inbox)
    /\ UNCHANGED <<outFile, proxies, effectiveJobId, ws, emitted, wsErrors>>
    /\ UNCHANGED callVars
    /\ UNCHANGED httpVars
    /\ UNCHANGED libVars

\* the socket raises an "error" event (connection refused, transport failure)
WsError ==
    /\ ws.state = "open" /\ ~wsErrors
    /\ wsErrors' = TRUE
    /\ IF HasErrorListener
       THEN UNCHANGED <<outcome, pc>>
       ELSE outcome' = Crash /\ pc' = "done"
    /\ UNCHANGED <<outFile, proxies, effectiveJobId, ws, emitted, inbox, forwarded, swallowed>>
    /\ UNCHANGED callVars
    /\ UNCHANGED httpVars
    /\ UNCHANGED libVars

----------------------------------------------------------------------------
(* The CLI `check [input]` command (src/bin/clearproxy.js 331-340, 448-704) *)

\* an argument that starts with "--" (line 464)
StartsWithDashes(a) ==
    Len(a) > 0 /\ Head(a) \in {"--type", "--custom", "--format", "--simple", "--region"}

\* the command line after `check`: the positional arguments, then the options
\* that differ from their defaults (lines 334-340)
Argv(positionals, o) ==
    positionals
        \o (IF o.type # "http" THEN <<<<"--type">>, <<o.type>>>> ELSE <<>>)
        \o (IF o.customUrls.given THEN <<<<"--custom">>, <<"[custom]">>>> ELSE <<>>)
        \o (IF o.format # "json" THEN <<<<"--format">>, <<o.format>>>> ELSE <<>>)
        \o (IF o.simple THEN <<<<"--simple">>>> ELSE <<>>)

\* process.argv.slice(3).filter(a => !a.startsWith("--"))
RECURSIVE NonFlagArgs(_)
NonFlagArgs(args) ==
    IF args = <<>> THEN <<>>
    ELSE IF StartsWithDashes(Head(args)) THEN NonFlagArgs(Tail(args))
         ELSE <<Head(args)>> \o NonFlagArgs(Tail(args))

\* positional arguments of a command line, with the file at the first one
Cmd(positionals, f) == [positionals |-> positionals, file |-> f]
CliCommands ==
    { Cmd(<<>>, NoFile),
      Cmd(<<<<"a">>>>, NoFile),
      Cmd(<<<<"http://", "a">>, <<"b">>>>, NoFile),
      Cmd(<<<<"f", ".txt">>>>, EmptyFile),
      Cmd(<<<<"f", ".txt">>>>, TxtFile(<<<<"http://", "a">>, <<"b">>>>)),
      Cmd(<<<<"f", ".json">>>>, BadJsonFile),
      Cmd(<<<<"f", ".json">>>>, JsonArrayFile(<<StrEntry(<<"a">>), RecEntry("h", 80, "u", "p")>>)) }

CliOptions ==
    LET customUrls ==
            {CustomUrls(TRUE, TRUE, TRUE, Len(r), r) : r \in SeqsUpTo(RuleKinds, MaxRules)}
                \cup {NoCustomUrls, CustomUrls(TRUE, FALSE, FALSE, 0, <<>>),
                      CustomUrls(TRUE, TRUE, FALSE, 0, <<>>)}
    IN  {Options(t, c, "", TRUE, k, f, sm) :
            t \in Types, c \in customUrls, k \in BOOLEAN, f \in {"json", "txt", "xml"},
            sm \in BOOLEAN}

\* `clearproxy check ...` is run
CliCall ==
    /\ pc = "idle"
    /\ \E c \in CliCommands, o \in CliOptions :
          /\ argv' = Argv(c.positionals, o)
          /\ input' = IF c.positionals = <<>> THEN AbsentInput
                      ELSE StringInput(Head(c.positionals))
          /\ file' = c.file
          /\ opts' = o
    /\ caller' = "cli"
    /\ pc' = "validate"
    /\ UNCHANGED <<outFile, proxies, effectiveJobId, ws, outcome>>
    /\ UNCHANGED httpVars
    /\ UNCHANGED chanVars
    /\ UNCHANGED libVars

\* lines 450-456: the type check, then loadKey (lines 29-37)
CliValidationError(o) ==
    IF o.type \notin allowedTypes THEN Msg("Invalid type")
    ELSE IF ~o.hasKey THEN Msg("API key not found.")
    ELSE NoErr

CliValidate ==
    /\ caller = "cli" /\ pc = "validate"
    /\ LET e == CliValidationError(opts)
       IN  IF e # NoErr
           THEN pc' = "done" /\ outcome' = Exits(1, e)
           ELSE pc' = "ingest" /\ outcome' = outcome
    /\ UNCHANGED <<outFile, proxies, effectiveJobId, ws>>
    /\ UNCHANGED callVars
    /\ UNCHANGED httpVars
    /\ UNCHANGED chanVars
    /\ UNCHANGED libVars

\* lines 459-466: an existing file is parsed, otherwise the arguments are
CliIngestResult(in, f, args) ==
    IF in.kind = "string" /\ in.str # <<>> /\ f.exists
    THEN parseProxies(in, f, Stdin(FALSE, <<>>))
    ELSE parseProxies(ArrayInput(StrEntries(NonFlagArgs(args))), f, Stdin(FALSE, <<>>))

\* lines 459-469
CliIngest ==
    /\ caller = "cli" /\ pc = "ingest"
    /\ LET r == CliIngestResult(input, file, argv)
       IN  IF r.err # ""
           THEN pc' = "done" /\ outcome' = Exits(1, Msg(r.err)) /\ proxies' = proxies
           ELSE IF r.list = <<>>
           THEN pc' = "done" /\ proxies' = r.list
                /\ outcome' = Exits(1, Msg("No proxies found in input. Provide a file or inline proxies."))
           ELSE pc' = "custom" /\ outcome' = outcome /\ proxies' = r.list
    /\ UNCHANGED <<outFile, effectiveJobId, ws>>
    /\ UNCHANGED callVars
    /\ UNCHANGED httpVars
    /\ UNCHANGED chanVars
    /\ UNCHANGED libVars

\* customUrls.forEach of lines 490-494, from index i
RECURSIVE CliRuleError(_, _)
CliRuleError(rules, i) ==
    IF i > Len(rules) THEN NoErr
    ELSE IF rules[i] \in {"nourl", "emptyurl"}
         THEN Err("Custom URL is missing 'url' field", 0, "", i - 1)
    ELSE CliRuleError(rules, i + 1)

\* lines 472-511: the error --custom ends in, NoErr when it is accepted; an
\* error whose message lacks "missing" is rethrown as "Failed to parse --custom"
CliCustomError(c) ==
    IF ~c.given THEN NoErr
    ELSE LET inner == IF ~c.parses THEN Msg("SyntaxError")
                      ELSE IF ~c.isArray THEN Msg("--custom must be a JSON array")
                      ELSE CliRuleError(c.rules, 1)
         IN  IF inner = NoErr \/ inner.msg = "Custom URL is missing 'url' field"
             THEN inner
             ELSE Msg("Failed to parse --custom")

\* lines 471-525
CliParseCustom ==
    /\ caller = "cli" /\ pc = "custom"
    /\ LET e == CliCustomError(opts.customUrls)
       IN  IF e # NoErr
           THEN pc' = "done" /\ outcome' = Exits(1, e)
           ELSE pc' = "submit" /\ outcome' = outcome
    /\ UNCHANGED <<outFile, proxies, effectiveJobId, ws>>
    /\ UNCHANGED callVars
    /\ UNCHANGED httpVars
    /\ UNCHANGED chanVars
    /\ UNCHANGED libVars

\* Math.random()/Date.now() identifier of line 527

\* lines 527-559: the socket is opened, then the submission request is issued
CliSubmit ==
    /\ caller = "cli" /\ pc = "submit"
    /\ \E g \in {"cli_r1"} :
          /\ effectiveJobId' = g
          /\ ws' = Socket("open", g, 0)
          /\ req' = Append(req, Body(proxies, opts.type, BodyCustomUrls(opts.customUrls), g))
    /\ pc' = "awaitSubmit"
    /\ UNCHANGED <<outFile, proxies, outcome, res, fetches, resultRes>>
    /\ UNCHANGED callVars
    /\ UNCHANGED chanVars
    /\ UNCHANGED libVars

\* ws.close()
Close(w) == Socket("closed", w.jobId, w.closes + 1)

\* lines 545-568, resumed when the submission fetch has settled; a rejection
\* goes to the catch of line 700, which exits
CliAfterSubmit ==
    /\ caller = "cli" /\ pc = "awaitSubmit" /\ res # <<>>
    /\ IF res[1].rejected
       THEN pc' = "done" /\ outcome' = Exits(1, Msg("FetchError")) /\ ws' = ws
       ELSE IF ~res[1].ok
       THEN pc' = "readText" /\ ws' = Close(ws) /\ outcome' = outcome
       ELSE pc' = "readJson" /\ UNCHANGED <<ws, outcome>>
    /\ UNCHANGED <<outFile, proxies, effectiveJobId>>
    /\ UNCHANGED callVars
    /\ UNCHANGED httpVars
    /\ UNCHANGED chanVars
    /\ UNCHANGED libVars

\* the Error of line 565: the message is the response body
CliApiError(r) == Err("<body>", 0, r.text, -1)

\* lines 564-565 and 700-703
CliReadText ==
    /\ caller = "cli" /\ pc = "readText"
    /\ outcome' = Exits(1, CliApiError(res[1]))
    /\ pc' = "done"
    /\ UNCHANGED <<outFile, proxies, effectiveJobId, ws>>
    /\ UNCHANGED callVars
    /\ UNCHANGED httpVars
    /\ UNCHANGED chanVars
    /\ UNCHANGED libVars

\* lines 568-573: the error decoding the submission response raises, if any
CliSubmitError(r) ==
    IF r.json = <<>> THEN Msg("SyntaxError")
    ELSE IF r.json[1].isNull THEN Msg("TypeError")
    ELSE IF r.json[1].result_url = "" THEN Msg("Unexpected API response: missing result_url")
    ELSE NoErr

\* lines 568-575: res.json(), ws.close(), the result_url check, the result fetch
CliReadJson ==
    /\ caller = "cli" /\ pc = "readJson"
    /\ LET e == CliSubmitError(res[1])
       IN  /\ ws' = IF res[1].json = <<>> THEN ws ELSE Close(ws)
           /\ IF e # NoErr
              THEN pc' = "done" /\ outcome' = Exits(1, e) /\ fetches' = fetches
              ELSE /\ fetches' = Append(fetches, res[1].json[1].result_url)
                   /\ pc' = "awaitResult"
                   /\ outcome' = outcome
    /\ UNCHANGED <<outFile, proxies, effectiveJobId, req, res, resultRes>>
    /\ UNCHANGED callVars
    /\ UNCHANGED chanVars
    /\ UNCHANGED libVars

\* the Error of line 577
CliResultError(r) == Err("Failed to fetch result", r.status, "", -1)

\* lines 575-578, resumed when the result fetch has settled
CliAfterResult ==
    /\ caller = "cli" /\ pc = "awaitResult" /\ resultRes # <<>>
    /\ IF resultRes[1].rejected
       THEN pc' = "done" /\ outcome' = Exits(1, Msg("FetchError"))
       ELSE IF ~resultRes[1].ok
       THEN pc' = "done" /\ outcome' = Exits(1, CliResultError(resultRes[1]))
       ELSE pc' = "readResult" /\ outcome' = outcome
    /\ UNCHANGED <<outFile, proxies, effectiveJobId, ws>>
    /\ UNCHANGED callVars
    /\ UNCHANGED httpVars
    /\ UNCHANGED chanVars
    /\ UNCHANGED libVars

(* formatOutput (sdk.js 542-583) *)

\* an element of the array given to formatOutput: a string or a verdict object
FmtStr(s) == [t |-> "str", s |-> s, v |-> Verdict(<<>>, "", "", "", "")]
FmtVerdict(v) == [t |-> "verdict", s |-> <<>>, v |-> v]

\* a template literal prints an absent field as "undefined"
FieldText(x) == IF x = "" THEN "undefined" ELSE x
PortField(n) == IF n = 0 THEN "undefined" ELSE PortText(n)

\* what formatOutput returns or throws: the text as its lines, or the JSON
\* text of an array as the texts of its elements
Rendered(err, kind, lines, items) ==
    [err |-> err, kind |-> kind, lines |-> lines, items |-> items]

\* an element printed with credentials whenever it carries both of them
SimpleLineByCredentials(p) ==
    IF p.t = "str" THEN p.s
    ELSE LET px == p.v.proxy
             auth == IF px # <<>> /\ px[1].username # "" /\ px[1].password # ""
                     THEN <<px[1].username, ":", px[1].password, "@">>
                     ELSE <<>>
         IN auth \o <<IF px = <<>> THEN "undefined" ELSE FieldText(px[1].host), ":",
                      IF px = <<>> THEN "undefined" ELSE PortField(px[1].port)>>

\* lines 547-551: one element in simple mode
SimpleLine(p) ==
    IF p.t = "str" THEN p.s
    ELSE LET px == p.v.proxy
             auth == IF px # <<>> /\ px[1].hasAuth
                     THEN <<FieldText(px[1].username), ":", FieldText(px[1].password), "@">>
                     ELSE <<>>
         IN auth \o <<IF px = <<>> THEN "undefined" ELSE FieldText(px[1].host), ":",
                      IF px = <<>> THEN "undefined" ELSE PortField(px[1].port)>>

\* lines 562-569: the six lines of one verdict
YamlBlock(p) ==
    << <<"- host: ", FieldText(p.v.proxy[1].host)>>,
       <<"  port: ", PortField(p.v.proxy[1].port)>>,
       <<"  status: ", FieldText(p.v.status)>>,
       <<"  country: ", FieldText(p.v.country)>>,
       <<"  isp: ", FieldText(p.v.isp)>>,
       <<"  responseTime: ", FieldText(p.v.responseTime)>> >>

\* line 577: one verdict as text
TxtLine(p) ==
    <<FieldText(p.v.proxy[1].host), ":", PortField(p.v.proxy[1].port), " (",
      FieldText(p.v.country), ", ", FieldText(p.v.responseTime), ")">>

\* the blocks of all verdicts, joined
RECURSIVE FlatBlocks(_)
FlatBlocks(ps) == IF ps = <<>> THEN <<>> ELSE YamlBlock(Head(ps)) \o FlatBlocks(Tail(ps))

\* a JSON value as text: its kind, its literal for a string, a number or a
\* boolean, its members for an object; a member is a value under a key
JsonValueText(key, kind, lit, sub) == [key |-> key, kind |-> kind, lit |-> lit, sub |-> sub]

\* the members JSON.stringify writes for an object: a key whose value is
\* absent is left out, a number is written in decimal, a boolean as a word
JsonMembers(fields) ==
    LET present(f) == IF f.kind = "string" THEN f.lit # ""
                      ELSE IF f.kind = "number" THEN f.lit # 0
                      ELSE IF f.kind = "object" THEN f.sub # <<>>
                      ELSE TRUE
        text(f) == IF f.kind = "number" THEN PortText(f.lit)
                   ELSE IF f.kind = "boolean" THEN (IF f.lit THEN "true" ELSE "false")
                   ELSE f.lit
        kept == SelectSeq(fields, present)
    IN  [i \in 1..Len(kept) |-> JsonValueText(kept[i].key, kept[i].kind, text(kept[i]),
                                              kept[i].sub)]

\* an encoder that leaves the credentials out of the proxy object
JsonStringifyNoCredentials(p) ==
    IF p.t = "str" THEN JsonValueText("", "string", p.s, <<>>)
    ELSE LET px == p.v.proxy
             inner == IF px = <<>> THEN <<>>
                      ELSE JsonMembers(<<JsonValueText("host", "string", px[1].host, <<>>),
                                         JsonValueText("port", "number", px[1].port, <<>>),
                                         JsonValueText("hasAuth", "boolean", px[1].hasAuth, <<>>)>>)
         IN  JsonValueText("", "object", "", JsonMembers(
                 <<JsonValueText("proxy", "object", "", inner),
                   JsonValueText("status", "string", p.v.status, <<>>),
                   JsonValueText("country", "string", p.v.country, <<>>),
                   JsonValueText("isp", "string", p.v.isp, <<>>),
                   JsonValueText("responseTime", "string", p.v.responseTime, <<>>)>>))

\* lines 553 and 559: JSON.stringify of one element of the array
JsonStringify(p) ==
    IF p.t = "str" THEN JsonValueText("", "string", p.s, <<>>)
    ELSE LET px == p.v.proxy
             inner == IF px = <<>> THEN <<>>
                      ELSE JsonMembers(<<JsonValueText("host", "string", px[1].host, <<>>),
                                         JsonValueText("port", "number", px[1].port, <<>>),
                                         JsonValueText("hasAuth", "boolean", px[1].hasAuth, <<>>),
                                         JsonValueText("username", "string", px[1].username, <<>>),
                                         JsonValueText("password", "string", px[1].password, <<>>)>>)
         IN  JsonValueText("", "object", "", JsonMembers(
                 <<JsonValueText("proxy", "object", "", inner),
                   JsonValueText("status", "string", p.v.status, <<>>),
                   JsonValueText("country", "string", p.v.country, <<>>),
                   JsonValueText("isp", "string", p.v.isp, <<>>),
                   JsonValueText("responseTime", "string", p.v.responseTime, <<>>)>>))

\* JSON.parse of one element (as at line 514): a string value gives the
\* string, an object gives a record with the members it has and no others
JsonParse(e) ==
    IF e.kind = "string" THEN FmtStr(e.lit)
    ELSE LET member(ms, k) == SelectSeq(ms, LAMBDA m : m.key = k)
             str(ms, k) == IF member(ms, k) = <<>> THEN "" ELSE member(ms, k)[1].lit
             num(ms, k) == IF member(ms, k) = <<>> THEN 0
                           ELSE CHOOSE n \in {80, 1080} : PortText(n) = member(ms, k)[1].lit
             bool(ms, k) == member(ms, k) # <<>> /\ member(ms, k)[1].lit = "true"
             pm == member(e.sub, "proxy")
         IN  FmtVerdict(Verdict(
                 IF pm = <<>> THEN <<>>
                 ELSE <<ProxyRec(str(pm[1].sub, "host"), num(pm[1].sub, "port"),
                                 bool(pm[1].sub, "hasAuth"), str(pm[1].sub, "username"),
                                 str(pm[1].sub, "password"))>>,
                 str(e.sub, "status"), str(e.sub, "country"), str(e.sub, "isp"),
                 str(e.sub, "responseTime")))

\* lines 542-583; `arg` says whether the first argument is an array, and its
\* elements.  p.proxy.host throws when an element has no proxy object.
formatOutput(arg, format, simple) ==
    LET ps == arg.items
        anyNoProxy == \E i \in 1..Len(ps) : ps[i].t = "str" \/ ps[i].v.proxy = <<>>
        lines == [i \in 1..Len(ps) |-> SimpleLine(ps[i])]
    IN  IF ~arg.isArray THEN Rendered("Invalid proxy data (not array)", "", <<>>, <<>>)
        ELSE IF simple
             THEN IF format = "json" THEN Rendered("", "json", lines, <<>>)
                  ELSE Rendered("", "text", lines, <<>>)
        ELSE IF format = "json"
             THEN Rendered("", "json", <<>>, [i \in 1..Len(ps) |-> JsonStringify(ps[i])])
        ELSE IF format = "yaml"
             THEN IF anyNoProxy THEN Rendered("TypeError", "", <<>>, <<>>)
                  ELSE Rendered("", "text", FlatBlocks(ps), <<>>)
        ELSE IF format = "txt"
             THEN IF anyNoProxy THEN Rendered("TypeError", "", <<>>, <<>>)
                  ELSE Rendered("", "text", [i \in 1..Len(ps) |-> TxtLine(ps[i])], <<>>)
        ELSE Rendered("Unsupported format", "", <<>>, <<>>)

\* lines 578-613 and 699-703: decode the payload and write the output file
CliReadResult ==
    /\ caller = "cli" /\ pc = "readResult"
    /\ LET r == resultRes[1]
       IN  IF r.json = <<>>
           THEN outcome' = Exits(1, Msg("SyntaxError")) /\ outFile' = outFile
           ELSE IF r.json[1].isNull
           THEN outcome' = Exits(1, Msg("TypeError")) /\ outFile' = outFile
           ELSE LET result == CheckResult(r.json[1], res[1].json[1])
                    items == [i \in 1..Len(result.proxies) |-> FmtVerdict(result.proxies[i])]
                    fe == formatOutput([isArray |-> TRUE, items |-> items], opts.format,
                                       opts.simple).err
                IN  IF result.custom_url_validation # NoCuv
                    THEN outFile' = <<"full">> /\ outcome' = Exits(0, NoErr)
                    ELSE IF fe # ""
                    THEN outFile' = outFile /\ outcome' = Exits(1, Msg(fe))
                    ELSE outFile' = <<"formatted">> /\ outcome' = Exits(0, NoErr)
    /\ pc' = "done"
    /\ UNCHANGED <<proxies, effectiveJobId, ws>>
    /\ UNCHANGED callVars
    /\ UNCHANGED httpVars
    /\ UNCHANGED chanVars
    /\ UNCHANGED libVars

----------------------------------------------------------------------------
(* Direct calls of the exported helpers (sdk.js 444-585).  A call draws    *)
(* its arguments from a bounded catalogue and runs to its return or throw  *)
(* in one step: the helpers do not await.                                  *)

MaxRender == 2

\* a caller renders a list, or something that is not one
FormatOutputCall ==
    /\ pc = "idle"
    /\ \E arg \in {[isArray |-> TRUE, items |-> items] :
                     items \in SeqsUpTo({FmtStr(<<"a">>), FmtVerdict(V1), FmtVerdict(V2),
                                         FmtVerdict(V3), FmtVerdict(V4)}, MaxRender)}
                    \cup {[isArray |-> FALSE, items |-> <<>>]},
          format \in {"json", "txt", "yaml", "xml"}, simple \in BOOLEAN :
          /\ libCall' = [fn |-> "formatOutput", arg |-> arg, format |-> format,
                         simple |-> simple]
          /\ libResult' = formatOutput(arg, format, simple)
    /\ caller' = "lib"
    /\ pc' = "returned"
    /\ UNCHANGED <<input, file, argv, opts, proxies, effectiveJobId, ws, outFile, outcome>>
    /\ UNCHANGED httpVars
    /\ UNCHANGED chanVars

MaxEntries == 2

(* The result aggregator (sdk.js 276-334) *)

\* one per-URL entry of a validation report; a count or the proxy list is <<>>
\* when the field is missing and <<value>> when it is there
UrlEntry(url, success, failed, rate, successful) ==
    [url |-> url, success_count |-> success, failed_count |-> failed,
     success_rate |-> rate, successful_proxies |-> successful]

\* a validation report: a bare array of entries, or an object whose
\* per_url_summary and results are <<>> (missing) or <<the array>>
Report(isArray, items, perUrl, results) ==
    [isArray |-> isArray, items |-> items, per_url_summary |-> perUrl, results |-> results]

\* an entry list that looks at results before per_url_summary
PerUrlResultsPrefersResults(cuv) ==
    IF cuv.results # <<>> THEN cuv.results[1]
    ELSE IF cuv.per_url_summary # <<>> THEN cuv.per_url_summary[1]
    ELSE IF cuv.isArray THEN cuv.items
    ELSE <<>>

\* lines 281-283 and 313-315: the entry list of whichever shape is there
PerUrlResults(cuv) ==
    IF cuv.per_url_summary # <<>> THEN cuv.per_url_summary[1]
    ELSE IF cuv.results # <<>> THEN cuv.results[1]
    ELSE IF cuv.isArray THEN cuv.items
    ELSE <<>>

\* lines 276-292; `validation` is <<>> for a result without validation data
filterByCustomUrl(validation, url) ==
    IF validation = <<>> THEN Thrown("No custom URL validation data available")
    ELSE LET es == PerUrlResults(validation[1])
             hits == {i \in 1..Len(es) : es[i].url = url}
         IN  IF hits = {} THEN Thrown("URL not found in custom validation results")
             ELSE LET r == es[CHOOSE i \in hits : \A j \in hits : i <= j]
                  IN  Parsed(IF r.successful_proxies = <<>> THEN <<>>
                             ELSE r.successful_proxies[1])

\* a percentage cut after two decimals instead of rounded
HundredthsCut(part, whole) == (part * 10000) \div whole

\* ((part / whole) * 100).toFixed(2), as a number of hundredths of a percent
Hundredths(part, whole) == (part * 20000 + whole) \div (2 * whole)

\* the text of a number of hundredths, with the percent sign
PercentText(h) == <<h \div 100, ".", (h % 100) \div 10, h % 10, "%">>

\* reduce((sum, r) => sum + (r.count || 0), 0) over a list of counts
RECURSIVE SumCounts(_)
SumCounts(cs) ==
    IF cs = <<>> THEN 0
    ELSE (IF Head(cs) = <<>> THEN 0 ELSE Head(cs)[1]) + SumCounts(Tail(cs))

\* lines 308-334: <<>> is null, <<summary>> the object returned
getCustomUrlSummary(validation) ==
    IF validation = <<>> THEN <<>>
    ELSE LET es == PerUrlResults(validation[1])
             totalSuccess == SumCounts([i \in 1..Len(es) |-> es[i].success_count])
             totalFailed == SumCounts([i \in 1..Len(es) |-> es[i].failed_count])
             totalTested == totalSuccess + totalFailed
         IN  << [total_urls |-> Len(es),
                 total_proxies_tested |-> totalTested,
                 total_success |-> totalSuccess,
                 total_failed |-> totalFailed,
                 overall_success_rate |->
                     IF totalTested > 0 THEN PercentText(Hundredths(totalSuccess, totalTested))
                     ELSE <<0, ".", 0, 0, "%">>,
                 per_url |-> [i \in 1..Len(es) |->
                                 [url |-> es[i].url, success_count |-> es[i].success_count,
                                  failed_count |-> es[i].failed_count,
                                  success_rate |-> es[i].success_rate]]] >>

\* the validation data of the results a caller aggregates: none, a bare
\* array, an object with either list, with both, or with neither
Validations ==
    LET entries == {UrlEntry("u1", <<1>>, <<1>>, "50.00%", <<<<"a">>>>),
                    UrlEntry("u2", <<2>>, <<>>, "", <<>>),
                    UrlEntry("u1", <<>>, <<1>>, "0.00%", <<<<"b">>>>),
                    UrlEntry("u2", <<0>>, <<0>>, "", <<<<>>>>)}
        lists == SeqsUpTo(entries, MaxEntries)
    IN  {<<>>, <<Report(FALSE, <<>>, <<>>, <<>>)>>}
            \cup {<<Report(TRUE, es, <<>>, <<>>)>> : es \in lists}
            \cup {<<Report(FALSE, <<>>, <<es>>, <<>>)>> : es \in lists}
            \cup {<<Report(FALSE, <<>>, <<>>, <<es>>)>> : es \in lists}
            \cup {<<Report(FALSE, <<>>, <<es>>, <<rs>>)>> : es \in lists, rs \in lists}

\* a caller asks for the proxies that passed one URL
FilterByCustomUrlCall ==
    /\ pc = "idle"
    /\ \E validation \in Validations, url \in {"u1", "u2", "u3"} :
          /\ libCall' = [fn |-> "filterByCustomUrl", validation |-> validation, url |-> url]
          /\ libResult' = filterByCustomUrl(validation, url)
    /\ caller' = "lib"
    /\ pc' = "returned"
    /\ UNCHANGED <<input, file, argv, opts, proxies, effectiveJobId, ws, outFile, outcome>>
    /\ UNCHANGED httpVars
    /\ UNCHANGED chanVars

\* a caller asks for the summary of the validation
GetCustomUrlSummaryCall ==
    /\ pc = "idle"
    /\ \E validation \in Validations :
          /\ libCall' = [fn |-> "getCustomUrlSummary", validation |-> validation]
          /\ libResult' = getCustomUrlSummary(validation)
    /\ caller' = "lib"
    /\ pc' = "returned"
    /\ UNCHANGED <<input, file, argv, opts, proxies, effectiveJobId, ws, outFile, outcome>>
    /\ UNCHANGED httpVars
    /\ UNCHANGED chanVars

(* parseProxies *)

MaxParse == 2
MaxLineLen == 2
MaxLines == 2

\* content.trim() on tokens joined by "\n": blank first and last lines go,
\* and the first and last lines left lose their outer whitespace
RECURSIVE DropBlankHead(_)
DropBlankHead(ls) ==
    IF ls = <<>> THEN <<>>
    ELSE IF Trim(Head(ls)) = <<>> THEN DropBlankHead(Tail(ls))
         ELSE <<TrimLeft(Head(ls))>> \o Tail(ls)

RECURSIVE DropBlankLast(_)
DropBlankLast(ls) ==
    IF ls = <<>> THEN <<>>
    ELSE IF Trim(ls[Len(ls)]) = <<>> THEN DropBlankLast(SubSeq(ls, 1, Len(ls) - 1))
         ELSE SubSeq(ls, 1, Len(ls) - 1) \o <<TrimRight(ls[Len(ls)])>>

\* the plain-text file holding the given tokens one per line, as lines
\* 506-507 and 532 read it
TxtFileOf(tokens) ==
    LET ls == DropBlankLast(DropBlankHead(tokens))
    IN  File(TRUE, ls = <<>>, FALSE, FALSE, <<>>, <<<<>>>>, ls)

\* the arguments and surroundings of one parseProxies call; `written` is <<>>
\* or <<the tokens the caller wrote into the file, one per line>>
ParseCall(in, f, stdin, written) ==
    [input |-> in, file |-> f, stdin |-> stdin, written |-> written]

\* the calls made: arrays; no input, with each kind of standard input; paths
\* with each kind of file; a .txt file written from a list of tokens
ParseCalls ==
    LET paths == {<<"f", ".json">>, <<"f", ".csv">>, <<"f", ".txt">>, <<"f">>}
        entryLists == SeqsUpTo(RawEntries, MaxParse)
        files ==
            {NoFile, EmptyFile, JsonOtherFile, JsonNullFile, BadJsonFile, BadCsvFile,
             TxtFile(<<<<"a">>, <<SP>>, <<"http://", "a">>>>)}
                \cup {JsonArrayFile(es) : es \in entryLists}
                \cup {JsonProxiesFile(es) : es \in entryLists}
                \cup {CsvFile(es) : es \in entryLists}
        stdins == {Stdin(FALSE, <<>>), Stdin(TRUE, <<>>), Stdin(TRUE, <<<<"a">>, <<SP>>>>)}
        tokenLists == SeqsUpTo(SeqsUpTo({SP, "http://", "a"}, MaxLineLen), MaxLines)
    IN  {ParseCall(ArrayInput(es), NoFile, Stdin(FALSE, <<>>), <<>>) : es \in entryLists}
            \cup {ParseCall(in, NoFile, sd, <<>>) :
                      in \in {AbsentInput, StringInput(<<>>)}, sd \in stdins}
            \cup {ParseCall(StringInput(path), f, Stdin(FALSE, <<>>), <<>>) :
                      path \in paths, f \in files}
            \cup {ParseCall(StringInput(<<"f", ".txt">>), TxtFileOf(ts), Stdin(FALSE, <<>>),
                            <<ts>>) : ts \in tokenLists}

\* a caller ingests an input
ParseProxiesCall ==
    /\ pc = "idle"
    /\ \E c \in ParseCalls :
          /\ libCall' = [fn |-> "parseProxies", input |-> c.input, file |-> c.file,
                         stdin |-> c.stdin, written |-> c.written]
          /\ libResult' = parseProxies(c.input, c.file, c.stdin)
    /\ caller' = "lib"
    /\ pc' = "returned"
    /\ UNCHANGED <<input, file, argv, opts, proxies, effectiveJobId, ws, outFile, outcome>>
    /\ UNCHANGED httpVars
    /\ UNCHANGED chanVars

MaxStrLen == 3

\* a caller normalizes one raw value: a string, a record or null
NormalizeProxyCall ==
    /\ pc = "idle"
    /\ \E p \in {StrEntry(str) :
                     str \in SeqsUpTo(SchemeChunks \cup {SP, "a", "ftp://"}, MaxStrLen)}
                 \cup {RecEntry(h, n, u, w) : h \in {"", "h"}, n \in {0, 80},
                                              u \in {"", "u"}, w \in {"", "p"}}
                 \cup {NullEntry} :
          /\ libCall' = [fn |-> "normalizeProxy", arg |-> p]
          /\ libResult' = normalizeProxy(p)
    /\ caller' = "lib"
    /\ pc' = "returned"
    /\ UNCHANGED <<input, file, argv, opts, proxies, effectiveJobId, ws, outFile, outcome>>
    /\ UNCHANGED httpVars
    /\ UNCHANGED chanVars

\* a caller asks for the format of a file
DetectFormatCall ==
    /\ pc = "idle"
    /\ \E filePath \in {<<"f", ".json">>, <<"f", ".csv">>, <<"f", ".txt">>, <<"f">>,
                         <<"f", ".JSON">>, <<".json", "f">>},
          content \in {File(TRUE, FALSE, br, co, <<>>, <<>>, <<>>) :
                          br \in BOOLEAN, co \in BOOLEAN} :
          /\ libCall' = [fn |-> "detectFormat", filePath |-> filePath, content |-> content]
          /\ libResult' = detectFormat(filePath, content)
    /\ caller' = "lib"
    /\ pc' = "returned"
    /\ UNCHANGED <<input, file, argv, opts, proxies, effectiveJobId, ws, outFile, outcome>>
    /\ UNCHANGED httpVars
    /\ UNCHANGED chanVars

LibNext ==
    \/ FormatOutputCall
    \/ ParseProxiesCall
    \/ NormalizeProxyCall
    \/ DetectFormatCall
    \/ FilterByCustomUrlCall
    \/ GetCustomUrlSummaryCall

CliNext ==
    \/ CliCall \/ CliValidate \/ CliIngest \/ CliParseCustom \/ CliSubmit
    \/ CliAfterSubmit \/ CliReadText \/ CliReadJson \/ CliAfterResult \/ CliReadResult

SdkNext ==
    \/ SdkCall \/ SdkValidate \/ SdkIngest \/ SdkSubmit \/ SdkAfterSubmit
    \/ SdkReadText \/ SdkReadJson \/ SdkAfterResult \/ SdkReadResult

Next ==
    \/ SdkNext
    \/ CliNext
    \/ LibNext
    \/ RemoteSubmitRespond \/ RemoteResultRespond
    \/ ServiceEmit \/ WsMessage \/ WsError

Spec == Init /\ [][Next]_vars

----------------------------------------------------------------------------
(* Properties *)

SdkEnded == caller = "sdk" /\ outcome.kind \in {"return", "throw"}
Failed == outcome.kind = "throw" \/ (outcome.kind = "exit" /\ outcome.code # 0)

\* C1: in ClearProxy.check, a progress socket that was opened is closed exactly
\* once, and it is closed by the time check has returned or thrown, whatever
\* the exit path.
C1_ProgressClosedOnce ==
    caller = "sdk" =>
        /\ ws.closes <= 1
        /\ (ws.closes = 1 <=> ws.state = "closed")
        /\ (SdkEnded /\ ws.state # "none" => ws.state = "closed")

\* C1 witness: a response body that failed to decode, with the socket closed once
C1_Witness ==
    /\ SdkEnded /\ outcome.err.msg = "SyntaxError"
    /\ ws.state = "closed" /\ ws.closes = 1

\* C2: the progress socket is opened without waiting for the submission
\* response: at the step that opens it no submission response has arrived.
C2_OpenedInParallel ==
    [][(ws.state = "none" /\ ws'.state = "open") => res' = <<>>]_vars

\* C3: a result fetch is issued only after a submission response that is ok
\* and carries a result_url; a failed or url-less submission has no fetch.
C3_FetchAfterSuccess ==
    fetches # <<>> =>
        /\ res # <<>> /\ ~res[1].rejected /\ res[1].ok
        /\ res[1].json # <<>> /\ ~res[1].json[1].isNull
        /\ res[1].json[1].result_url # ""
        /\ fetches[1] = res[1].json[1].result_url

\* C3 witness: the result location is being fetched
C3_Witness == pc = "awaitResult" /\ Len(fetches) = 1 /\ res[1].ok

\* C4: the progress channel is advisory: no step of the channel (a message
\* emitted, received, handled, undecodable or making the callback throw, or a
\* socket error) changes where the call stands, what it has requested or how
\* it ends.
C4_ChannelAdvisory ==
    [][(emitted' # emitted \/ inbox' # inbox \/ forwarded' # forwarded
          \/ swallowed' # swallowed \/ wsErrors' # wsErrors)
        => (pc' = pc /\ outcome' = outcome /\ req' = req /\ fetches' = fetches
              /\ ws' = ws)]_vars

\* C4 witness: check returned its result although the handler had swallowed an
\* exception and the socket had raised an error
C4_Witness ==
    caller = "sdk" /\ outcome.kind = "return" /\ swallowed > 0 /\ wsErrors

\* what parseProxies makes of the string input of the call
\* C5: when reading a string input that names an existing file fails (empty
\* file, undecodable content), check throws and submits nothing.
C5_IngestFailureSurfaces ==
    (/\ caller = "sdk" /\ input.kind = "string" /\ file.exists
     /\ parseProxies(input, file, Stdin(FALSE, <<>>)).err # "")
        => (req = <<>> /\ (pc = "done" => outcome.kind = "throw"))

\* C6: no proxy token of a submission request of check starts with a scheme
\* prefix.
C6_NoSchemeInSubmission ==
    caller = "sdk" =>
        \A i \in 1..Len(req) : \A k \in 1..Len(req[i].proxies) :
            ~HasSchemePrefix(req[i].proxies[k])

\* the options the validation has to reject, and the first offending rule
\* C7: with a type outside http/socks4/socks5, or a custom URL rule without a
\* non-empty string url, no submission request and no progress socket is ever
\* started and the call fails; check (where validation is the first step)
\* throws the validation error, which for a rule names the index of the first
\* offending rule.
C7_ValidationBeforeNetwork ==
    LET rules == opts.customUrls.rules
        BadRule(k) == k # "ok"
        BadOptions ==
            opts.type \notin allowedTypes
                \/ (opts.customUrls.given /\ \E i \in 1..Len(rules) : BadRule(rules[i]))
        FirstBadRule ==
            CHOOSE i \in 1..Len(rules) :
                BadRule(rules[i]) /\ \A j \in 1..(i - 1) : ~BadRule(rules[j])
    IN  (caller # "none" /\ BadOptions) =>
            /\ req = <<>> /\ ws.state = "none"
            /\ pc = "done" => Failed
            /\ (caller = "sdk" /\ pc = "done") =>
                  IF opts.type \notin allowedTypes
                  THEN outcome.err.msg = "Invalid type"
                  ELSE outcome.err.msg \in {"Custom URL is missing 'url' field",
                                            "Custom URL: 'url' must be a string"}
                         /\ outcome.err.idx = FirstBadRule - 1

\* C8: at most one submission request and at most one result fetch are issued,
\* and a request that failed ends the call with a failure.
C8_NoRetry ==
    /\ Len(req) <= 1
    /\ Len(fetches) <= 1
    /\ (pc = "done" /\ res # <<>> /\ (res[1].rejected \/ ~res[1].ok)) => Failed
    /\ (pc = "done" /\ resultRes # <<>> /\ (resultRes[1].rejected \/ ~resultRes[1].ok)) => Failed

\* C8 witness: a submission answered with a non-success status ended the call
C8_Witness ==
    pc = "done" /\ Len(req) = 1 /\ res # <<>> /\ ~res[1].rejected /\ ~res[1].ok /\ Failed

\* C9: the job identifier of the progress socket is the jobId of the
\* submission body, supplied or generated; a supplied jobId is sent as it is,
\* and without callback and jobId the body carries none.
C9_JobIdAgreement ==
    /\ (ws.state # "none" /\ req # <<>>) => (ws.jobId # "" /\ ws.jobId = req[Len(req)].jobId)
    /\ (caller = "sdk" /\ req # <<>> /\ opts.jobId # "") => req[1].jobId = opts.jobId
    /\ (caller = "sdk" /\ req # <<>> /\ opts.jobId = "" /\ ~opts.onProgress) => req[1].jobId = ""

\* C9 witness: a socket opened under a generated identifier
C9_Witness ==
    /\ caller = "sdk" /\ ws.state = "open" /\ opts.jobId = ""
    /\ ws.jobId \in GeneratedJobIds /\ req[1].jobId = ws.jobId

\* C10: a non-success status on the submission or on the result fetch makes
\* check throw an error that carries the status code and the response body.
C10_RemoteErrorCarriesStatusAndBody ==
    /\ (SdkEnded /\ res # <<>> /\ ~res[1].rejected /\ ~res[1].ok)
          => (outcome.kind = "throw" /\ outcome.err.status = res[1].status
                /\ outcome.err.body = res[1].text)
    /\ (SdkEnded /\ resultRes # <<>> /\ ~resultRes[1].rejected /\ ~resultRes[1].ok)
          => (outcome.kind = "throw" /\ outcome.err.status = resultRes[1].status
                /\ outcome.err.body = resultRes[1].text)

\* C11: when the submission is answered with success but the decoded response
\* carries no result_url, ClearProxy.check throws an error that is not the
\* non-success (API) error, returns no result and fetches nothing; for a
\* response object the error is the "missing 'result_url'" one.
C11_MissingResultUrlIsProtocolError ==
    (/\ SdkEnded
     /\ res # <<>> /\ ~res[1].rejected /\ res[1].ok
     /\ res[1].json # <<>> /\ res[1].json[1].result_url = "")
    => /\ outcome.kind = "throw"
       /\ outcome.val = <<>>
       /\ fetches = <<>>
       /\ outcome.err.msg # SdkApiError(res[1]).msg
       /\ (~res[1].json[1].isNull =>
             outcome.err = Msg("Unexpected API response: missing 'result_url'"))

\* C11 witness: a decoded response object without result_url ended the call
C11_Witness ==
    /\ SdkEnded
    /\ res # <<>> /\ ~res[1].rejected /\ res[1].ok
    /\ res[1].json # <<>> /\ ~res[1].json[1].isNull /\ res[1].json[1].result_url = ""
    /\ outcome.err.msg = "Unexpected API response: missing 'result_url'"

\* C12: formatOutput throws the unsupported-format error for every format
\* other than json, txt and yaml, with simple true as with simple false, and
\* the invalid-input error when what it is given is not an array.
C12_UnsupportedFormatRejected ==
    libCall.fn = "formatOutput" =>
        /\ (~libCall.arg.isArray =>
               libResult.err = "Invalid proxy data (not array)")
        /\ (libCall.arg.isArray /\ libCall.format \notin {"json", "txt", "yaml"} =>
               libResult.err = "Unsupported format")

C14_NoInputFound ==
    (/\ libCall.fn = "parseProxies"
     /\ libCall.input.kind = "absent"
     /\ (~libCall.stdin.available \/ libCall.stdin.lines = <<>>))
    => libResult = Thrown("No input found (file or stdin).")

\* C15: an array of tokens and a plain-text file holding the same tokens one
\* per line give parseProxies the same ordered list; a line that normalizes to
\* null or to the empty string is dropped from the file as from the array.
\* (A file that is empty once trimmed is the empty-file error and is left out.)
C15_ArrayAndFileAgree ==
    (/\ libCall.fn = "parseProxies"
     /\ libCall.written # <<>>
     /\ ~libCall.file.trimmedEmpty) =>
        libResult = parseProxies(ArrayInput(StrEntries(libCall.written[1])), NoFile,
                                 Stdin(FALSE, <<>>))

\* C16: for a (non-empty) string, normalizeProxy removes one leading scheme
\* prefix (http://, https://, socks4://, socks5://, in any letter case) if the
\* string starts with one, then the surrounding whitespace, and returns what
\* is left unchanged: the result has no outer whitespace and the string is
\* the prefix, whitespace, the result and whitespace, with nothing else gone.
C16_StripsOnePrefixAndTrims ==
    (libCall.fn = "normalizeProxy" /\ libCall.arg.t = "str" /\ libCall.arg.s # <<>>) =>
        LET s == libCall.arg.s
            body == IF Head(s) \in {"http://", "https://", "socks4://", "socks5://", "HTTP://"}
                    THEN Tail(s) ELSE s
        IN  /\ libResult # Null
            /\ LET r == libResult[1]
               IN  /\ (r # <<>> => r[1] # SP /\ r[Len(r)] # SP)
                   /\ \E i \in 0..Len(body) :
                         /\ i + Len(r) <= Len(body)
                         /\ SubSeq(body, i + 1, i + Len(r)) = r
                         /\ \A k \in 1..Len(body) :
                               (k <= i \/ k > i + Len(r)) => body[k] = SP

\* C16 witness: a prefixed string with whitespace on both sides of the rest
C16_Witness ==
    /\ libCall.fn = "normalizeProxy"
    /\ libCall.arg = StrEntry(<<"socks5://", SP, "a">>)
    /\ libResult = Str(<<"a">>)

\* C17: for a value that is not a string, normalizeProxy returns host:port when
\* the record has a host and a port, with username:password@ before it exactly
\* when it has both; a record missing the host or the port, null and the
\* empty string give null.
C17_RecordToToken ==
    (libCall.fn = "normalizeProxy"
     /\ (libCall.arg.t # "str" \/ libCall.arg.s = <<>>)) =>
        LET a == libCall.arg
            has == a.t = "rec" /\ a.host # "" /\ a.port # 0
            auth == a.username # "" /\ a.password # ""
        IN  IF ~has THEN libResult = Null
            ELSE /\ libResult # Null
                 /\ LET r == libResult[1]
                        n == Len(r)
                    IN  /\ n >= 3
                        /\ SubSeq(r, n - 2, n) = <<a.host, ":", PortText(a.port)>>
                        /\ (auth => r = <<a.username, ":", a.password, "@">>
                                          \o <<a.host, ":", PortText(a.port)>>)
                        /\ (~auth => n = 3)

\* C17 witness: a record with only a username gives the bare host:port
C17_Witness ==
    /\ libCall.fn = "normalizeProxy"
    /\ libCall.arg = RecEntry("h", 80, "u", "")
    /\ libResult = Str(<<"h", ":", "80">>)

\* C18: detectFormat decides by the extension (.json, .csv, .txt) whatever the
\* content; only a path without such an extension is decided by the content:
\* a leading "[" after trimming is JSON, else a comma anywhere is CSV, else
\* plain text.
C18_ExtensionBeforeContent ==
    libCall.fn = "detectFormat" =>
        LET path == libCall.filePath
            ext == IF path = <<>> THEN "" ELSE path[Len(path)]
        IN  /\ (ext = ".json" => libResult = "json")
            /\ (ext = ".csv" => libResult = "csv")
            /\ (ext = ".txt" => libResult = "txt")
            /\ (ext \notin {".json", ".csv", ".txt"} =>
                  /\ (libCall.content.startsBracket => libResult = "json")
                  /\ (~libCall.content.startsBracket /\ libCall.content.hasComma =>
                         libResult = "csv")
                  /\ (~libCall.content.startsBracket /\ ~libCall.content.hasComma =>
                         libResult = "txt"))

\* C18 witness: a .txt path whose content starts with "[" and holds a comma
C18_Witness ==
    /\ libCall.fn = "detectFormat"
    /\ libCall.filePath = <<"f", ".txt">>
    /\ libCall.content.startsBracket /\ libCall.content.hasComma
    /\ libResult = "txt"

\* C19: for a file detected as JSON, parseProxies accepts a top-level array and
\* an object whose proxies field is an array, returning the entries'
\* normalizations in order without the null (and empty) ones; every other
\* decoded value, and content that does not decode, is the JSON parse error.
C19_JsonShapes ==
    (/\ libCall.fn = "parseProxies"
     /\ libCall.input.kind = "string" /\ libCall.input.str # <<>>
     /\ libCall.file.exists /\ ~libCall.file.trimmedEmpty
     /\ detectFormat(libCall.input.str, libCall.file) = "json") =>
        LET js == libCall.file.json
        IN  IF js # <<>> /\ js[1].shape \in {"array", "proxies"}
            THEN LET es == js[1].entries
                     kept == SelectSeq([i \in 1..Len(es) |-> normalizeProxy(es[i])],
                                       LAMBDA r : r # Null /\ r # Str(<<>>))
                 IN  /\ libResult.err = ""
                     /\ libResult.list = [i \in 1..Len(kept) |-> kept[i][1]]
            ELSE libResult = Thrown("Failed to parse JSON")

\* C19 witness: an object with a proxies array, one entry of which is dropped
C19_Witness ==
    /\ libCall.fn = "parseProxies"
    /\ libCall.input.kind = "string"
    /\ detectFormat(libCall.input.str, libCall.file) = "json"
    /\ libCall.file.json # <<>> /\ libCall.file.json[1].shape = "proxies"
    /\ Len(libCall.file.json[1].entries) = 2
    /\ libResult.err = "" /\ Len(libResult.list) = 1

\* C20: in the object check returns, working and failed are the verdicts of
\* proxies whose status is "working" and "failed", in the order of proxies
\* (so no verdict is in both and one with another status is in neither), and
\* summary, metadata and proxies are the payload's, or the empty map, the
\* empty map and the empty list when the payload lacks them.
C20_CheckResultShape ==
    (SdkEnded /\ outcome.kind = "return") =>
        LET v == outcome.val[1]
            pay == resultRes[1].json[1]
            ps == IF pay.proxies = <<>> THEN <<>> ELSE pay.proxies[1]
        IN  /\ v.proxies = ps
            /\ v.working = SelectSeq(ps, LAMBDA p : p.status = "working")
            /\ v.failed = SelectSeq(ps, LAMBDA p : p.status = "failed")
            /\ \A i \in 1..Len(v.working), j \in 1..Len(v.failed) :
                  v.working[i] # v.failed[j]
            /\ v.summary = (IF pay.summary = "absent" THEN "{}" ELSE pay.summary)
            /\ v.metadata = (IF pay.metadata = "absent" THEN "{}" ELSE pay.metadata)

\* C20 witness: a verdict with another status is in proxies and in neither list
C20_Witness ==
    /\ SdkEnded /\ outcome.kind = "return"
    /\ outcome.val[1].proxies = <<V3, V1>>
    /\ outcome.val[1].working = <<V1>>
    /\ outcome.val[1].failed = <<>>
    /\ outcome.val[1].summary = "{}"

\* C21: the custom validation of the object check returns is the result
\* payload's custom_url_validation when that is there, else the submission
\* response's when that is there, else null; the CLI writes the full output
\* exactly when one of the two is there.
C21_FirstCustomValidationWins ==
    LET fromResult == resultRes[1].json[1].custom_url_validation
        fromSubmit == res[1].json[1].custom_url_validation
        expected == IF fromResult # NoCuv THEN fromResult
                    ELSE IF fromSubmit # NoCuv THEN fromSubmit ELSE NoCuv
    IN  /\ (SdkEnded /\ outcome.kind = "return" =>
               outcome.val[1].custom_url_validation = expected)
        /\ (caller = "cli" /\ outFile # <<>> =>
               (outFile = <<"full">> <=> expected # NoCuv))

\* C21 witness: both responses carry a validation and the result's is returned
C21_Witness ==
    /\ SdkEnded /\ outcome.kind = "return"
    /\ res[1].json[1].custom_url_validation = SomeCuv("submit")
    /\ resultRes[1].json[1].custom_url_validation = SomeCuv("result")
    /\ outcome.val[1].custom_url_validation = SomeCuv("result")

\* C22: filterByCustomUrl throws the no-validation-data error when the result
\* has no custom validation, the url-not-found error when no entry of the
\* shape that is there (per_url_summary, else results, else the bare array)
\* has exactly that url, and otherwise returns the first such entry's
\* successful_proxies, or the empty list when the entry has none; it throws
\* nothing else.
C22_FilterByCustomUrl ==
    libCall.fn = "filterByCustomUrl" =>
        IF libCall.validation = <<>>
        THEN libResult = Thrown("No custom URL validation data available")
        ELSE LET v == libCall.validation[1]
                 es == IF v.per_url_summary # <<>> THEN v.per_url_summary[1]
                       ELSE IF v.results # <<>> THEN v.results[1]
                       ELSE IF v.isArray THEN v.items ELSE <<>>
             IN  IF \A i \in 1..Len(es) : es[i].url # libCall.url
                 THEN libResult = Thrown("URL not found in custom validation results")
                 ELSE /\ libResult.err = ""
                      /\ \E i \in 1..Len(es) :
                            /\ es[i].url = libCall.url
                            /\ \A j \in 1..(i - 1) : es[j].url # libCall.url
                            /\ libResult.list =
                                  (IF es[i].successful_proxies = <<>> THEN <<>>
                                   ELSE es[i].successful_proxies[1])

\* C22 witness: both lists are there and only per_url_summary is searched
C22_Witness ==
    /\ libCall.fn = "filterByCustomUrl"
    /\ libCall.url = "u1"
    /\ libCall.validation # <<>>
    /\ libCall.validation[1].per_url_summary = <<<<UrlEntry("u2", <<2>>, <<>>, "", <<>>)>>>>
    /\ libCall.validation[1].results # <<>> /\ libCall.validation[1].results[1] # <<>>
    /\ libResult.err = "URL not found in custom validation results"

\* C23: getCustomUrlSummary returns null when there is no custom validation;
\* otherwise total_success and total_failed are the sums of the entries'
\* success_count and failed_count (a missing count is 0), total_proxies_tested
\* is their sum, total_urls the number of entries, overall_success_rate the
\* success percentage to the nearest hundredth ("0.00%" when nothing was
\* tested) and per_url the entries' projections in the order of the entries.
C23_Summary ==
    libCall.fn = "getCustomUrlSummary" =>
        IF libCall.validation = <<>> THEN libResult = <<>>
        ELSE LET v == libCall.validation[1]
                 es == IF v.per_url_summary # <<>> THEN v.per_url_summary[1]
                       ELSE IF v.results # <<>> THEN v.results[1]
                       ELSE IF v.isArray THEN v.items ELSE <<>>
                 n == Len(es)
                 count(c) == IF c = <<>> THEN 0 ELSE c[1]
                 success[i \in 0..n] ==
                     IF i = 0 THEN 0 ELSE success[i - 1] + count(es[i].success_count)
                 failed[i \in 0..n] ==
                     IF i = 0 THEN 0 ELSE failed[i - 1] + count(es[i].failed_count)
                 tested == success[n] + failed[n]
             IN  /\ libResult # <<>>
                 /\ LET s == libResult[1]
                        rate == s.overall_success_rate
                        h == rate[1] * 100 + rate[3] * 10 + rate[4]
                    IN  /\ s.total_success = success[n]
                        /\ s.total_failed = failed[n]
                        /\ s.total_proxies_tested = tested
                        /\ s.total_urls = n
                        /\ rate[2] = "." /\ rate[5] = "%"
                        /\ rate[3] \in 0..9 /\ rate[4] \in 0..9
                        /\ (tested = 0 => h = 0)
                        /\ (tested > 0 =>
                              /\ 2 * (h * tested - 10000 * success[n]) <= tested
                              /\ 2 * (10000 * success[n] - h * tested) <= tested)
                        /\ Len(s.per_url) = n
                        /\ \A i \in 1..n :
                              s.per_url[i] =
                                  [url |-> es[i].url, success_count |-> es[i].success_count,
                                   failed_count |-> es[i].failed_count,
                                   success_rate |-> es[i].success_rate]

\* C23 witness: two of three tested proxies passed, a missing count is 0
C23_Witness ==
    /\ libCall.fn = "getCustomUrlSummary"
    /\ libResult # <<>>
    /\ libResult[1].total_success = 2 /\ libResult[1].total_failed = 1
    /\ libResult[1].overall_success_rate = <<66, ".", 6, 7, "%">>

\* C24 as stated: with simple = true and format json, txt or yaml, formatOutput
\* gives one token per verdict, in order: user:pass@host:port when the
\* verdict's proxy record carries a username and a password, host:port
\* otherwise; json gives the list as a JSON array, txt and yaml one per line.
C24_SimpleTokensByCredentials ==
    (/\ libCall.fn = "formatOutput" /\ libCall.simple /\ libCall.arg.isArray
     /\ libCall.format \in {"json", "txt", "yaml"}) =>
        LET ps == libCall.arg.items
        IN  /\ libResult.err = ""
            /\ libResult.kind = (IF libCall.format = "json" THEN "json" ELSE "text")
            /\ Len(libResult.lines) = Len(ps)
            /\ \A i \in 1..Len(ps) :
                  (ps[i].t = "verdict" /\ ps[i].v.proxy # <<>>) =>
                      LET px == ps[i].v.proxy[1]
                      IN  libResult.lines[i] =
                            (IF px.username # "" /\ px.password # ""
                             THEN <<px.username, ":", px.password, "@">> ELSE <<>>)
                                \o <<px.host, ":", PortText(px.port)>>

\* C24 amended: with simple = true and format json, txt or yaml, formatOutput
\* gives one token per element, in order: username:password@host:port when the
\* verdict's proxy record has its hasAuth flag set, host:port otherwise, a
\* missing field or record printed as "undefined", a string element as it
\* is; json gives the list as a JSON array, txt and yaml one per line.
C24_SimpleTokensByHasAuth ==
    (/\ libCall.fn = "formatOutput" /\ libCall.simple /\ libCall.arg.isArray
     /\ libCall.format \in {"json", "txt", "yaml"}) =>
        LET ps == libCall.arg.items
            text(x) == IF x = "" THEN "undefined" ELSE x
            port(n) == IF n = 0 THEN "undefined" ELSE PortText(n)
        IN  /\ libResult.err = ""
            /\ libResult.kind = (IF libCall.format = "json" THEN "json" ELSE "text")
            /\ Len(libResult.lines) = Len(ps)
            /\ \A i \in 1..Len(ps) :
                  libResult.lines[i] =
                    IF ps[i].t = "str" THEN ps[i].s
                    ELSE IF ps[i].v.proxy = <<>> THEN <<"undefined", ":", "undefined">>
                    ELSE LET px == ps[i].v.proxy[1]
                         IN  (IF px.hasAuth
                              THEN <<text(px.username), ":", text(px.password), "@">>
                              ELSE <<>>)
                                 \o <<text(px.host), ":", port(px.port)>>

\* C24 witness: a record with credentials but without the flag gives host:port
C24_Witness ==
    /\ libCall.fn = "formatOutput" /\ libCall.simple /\ libCall.format = "txt"
    /\ libCall.arg.items = <<FmtVerdict(V2), FmtVerdict(V4)>>
    /\ libResult.lines = << <<"u", ":", "p", "@", "h", ":", "1080">>, <<"h", ":", "80">> >>

\* C25: for every verdict list, JSON-parsing the output of
\* formatOutput(verdicts, "json", false) gives a list of the same length, in
\* the same order, with the same fields and values.
C25_JsonRoundTrip ==
    (/\ libCall.fn = "formatOutput" /\ ~libCall.simple /\ libCall.format = "json"
     /\ libCall.arg.isArray) =>
        /\ libResult.err = "" /\ libResult.kind = "json"
        /\ Len(libResult.items) = Len(libCall.arg.items)
        /\ \A i \in 1..Len(libCall.arg.items) :
              JsonParse(libResult.items[i]) = libCall.arg.items[i]

\* C25 witness: two verdicts, one with credentials and one without a proxy
\* object, were rendered; the text of the first has no country member
C25_Witness ==
    /\ libCall.fn = "formatOutput" /\ ~libCall.simple /\ libCall.format = "json"
    /\ libCall.arg.items = <<FmtVerdict(V2), FmtVerdict(V3)>>
    /\ Len(libResult.items) = 2
    /\ Len(libResult.items[1].sub) = 2
    /\ Len(libResult.items[1].sub[1].sub) = 5
    /\ libResult.items[2].sub = <<JsonValueText("status", "string", "timeout", <<>>)>>

\* C26: the CLI check command ends with a non-zero exit status on every core
\* failure (invalid type, missing API key, empty input, malformed --custom,
\* rejected or non-success submission, missing result_url, failed result
\* fetch, unsupported output format), and ends with status zero only after
\* the output file has been written.
C26_NonZeroExitOnFailure ==
    (caller = "cli" /\ pc = "done") =>
        LET c == opts.customUrls
            failure ==
                \/ opts.type \notin {"http", "socks4", "socks5"}
                \/ ~opts.hasKey
                \/ proxies = <<>>
                \/ c.given /\ (~c.parses \/ ~c.isArray
                                 \/ \E i \in 1..Len(c.rules) : c.rules[i] \in {"nourl", "emptyurl"})
                \/ res # <<>> /\ (res[1].rejected \/ ~res[1].ok)
                \/ res # <<>> /\ res[1].json # <<>> /\ ~res[1].json[1].isNull
                              /\ res[1].json[1].result_url = ""
                \/ resultRes # <<>> /\ (resultRes[1].rejected \/ ~resultRes[1].ok)
                \/ opts.format \notin {"json", "txt", "yaml"}
        IN  /\ failure => outcome.code # 0
            /\ outcome.code = 0 => outFile # <<>>

\* C27: in the CLI check command, the progress socket opened before the
\* submission request is closed exactly once on every path by which the
\* command finishes, a rejected submission request, a non-success status and
\* an undecodable submission response body included.
C27_CliSocketClosedOnce ==
    (caller = "cli" /\ ws # NoSocket) =>
        /\ ws.closes <= 1
        /\ pc = "done" => (ws.state = "closed" /\ ws.closes = 1)

\* C28: when the CLI check command is given inline proxies instead of an
\* existing file, the proxies it submits are exactly the normalized
\* positional arguments, in command-line order; the value of an option
\* (--type, --format, --custom, ...) is never submitted as a proxy token.
C28_InlineProxiesArePositionals ==
    (caller = "cli" /\ ~file.exists /\ req # <<>>) =>
        LET takesValue == {<<"--type">>, <<"--custom">>, <<"--format">>, <<"--region">>}
            isOption(i) == Head(argv[i]) \in {"--type", "--custom", "--format", "--region",
                                              "--simple"}
            isValue(i) == i > 1 /\ argv[i - 1] \in takesValue
            positionals[i \in 0..Len(argv)] ==
                IF i = 0 THEN <<>>
                ELSE IF isOption(i) \/ isValue(i) THEN positionals[i - 1]
                ELSE Append(positionals[i - 1], argv[i])
            pos == positionals[Len(argv)]
            token(a) == IF Head(a) \in SchemeChunks THEN Tail(a) ELSE a
        IN  /\ req[1].proxies = [i \in 1..Len(pos) |-> token(pos[i])]
            /\ \A i \in 1..Len(argv) :
                  isValue(i) => \A j \in 1..Len(req[1].proxies) : req[1].proxies[j] # argv[i]

\* C29: once check has returned or thrown, the onProgress callback is never
\* invoked again; no event that arrives after the socket has been closed is
\* forwarded to the caller.
C29_NoProgressAfterCheckEnds ==
    [][(caller = "sdk" /\ outcome.kind \in {"return", "throw"}) => forwarded' = forwarded]_vars

\* C30: an exception thrown by the onProgress callback does not propagate:
\* the step that handles a received message leaves check where it stands and
\* its outcome as it was, and, whatever was thrown before, forwards the
\* message to the callback when it decodes (and only then), so that the
\* decoded messages are forwarded once each, in arrival order.
C30_CallbackExceptionContained ==
    [][(caller = "sdk" /\ Len(inbox') < Len(inbox)) =>
          /\ pc' = pc /\ outcome' = outcome
          /\ swallowed' \in {swallowed, swallowed + 1}
          /\ forwarded' = (IF Head(inbox).decodable THEN forwarded \o <<Head(inbox).id>>
                           ELSE forwarded)
          /\ \A i, j \in 1..Len(forwarded') : i < j => forwarded'[i] < forwarded'[j]]_vars

\* C30 witness: the callback threw on both events, both were forwarded in
\* order, and check returned its result
C30_Witness ==
    /\ caller = "sdk" /\ outcome.kind = "return"
    /\ forwarded = <<1, 2>> /\ swallowed = 2 /\ inbox = <<>>

====
